---------------------------- MODULE Spec2Model ----------------------------
(***************************************************************************)
(* Model of the batch engine of src/src/routes/user.py:                    *)
(* run_all_phases_processing_adapted and the functions it drives           *)
(* (entity resolvers with their per-run caches, Phase 1 eligibility,       *)
(* Phase 2 payment posting, Phase 3 grouped encounter creation, summary).  *)
(*                                                                         *)
(* A spreadsheet cell is a string or NaN (an empty cell as pandas reads    *)
(* it).  A remote operation answers with one of a small set of responses;  *)
(* the answer is chosen when the call is made.  Every remote call is       *)
(* appended to `log`.  The Error column of a row is the sequence of its    *)
(* clauses (the text between the "; " separators); a clause is a record    *)
(* [t, a, sfx]: the literal text of the source with %s for its argument a, *)
(* and the sequence of warnings appended to it.                            *)
(* Remote diagnostic texts are opaque: they hold no ';' and none of the    *)
(* status markers the program itself writes.                               *)
(* The place-of-service and hospitalization parts of an encounter are not  *)
(* in the request of the model: neither can end a group (lines 781-807,    *)
(* 1135-1153).                                                             *)
(***************************************************************************)
EXTENDS Integers, Sequences, FiniteSets, TLC

VARIABLES
    batch,      \* df_param input columns: sequence of rows (read only)
    outp,       \* df_param output columns, one record per row
    caches,     \* the five g_*_cache_local dictionaries of this run
    log,        \* remote calls issued so far, in order
    faults,     \* number of non-nominal remote answers so far
    pc,         \* position in run_all_phases_processing_adapted
    idx,        \* next row of the Phase 1/2 loop, or next group of Phase 3
    groups,     \* grouped_for_encounter.groups: sequence of [key, rows]
    summary,    \* the summary dictionary, once computed
    peer        \* the frame of a second invocation that runs concurrently

vars == <<batch, outp, caches, log, faults, pc, idx, groups, summary, peer>>

-----------------------------------------------------------------------------
(* Bounds *)

\* rows in the batch
MaxRows == 2
\* remote answers other than the nominal one, per run
MaxFaults == 1

-----------------------------------------------------------------------------
(* Python / pandas values *)

NaN == "<NaN>"
None == "<None>"
ValueError == "<ValueError>"

\* str(x)
PyStr(v) == IF v = NaN THEN "nan" ELSE v

\* pd.isna(x)
IsNa(v) == v = NaN \/ v = None

\* str.strip() on the strings of the model
Strip(s) ==
    CASE s = " " -> ""
      [] s = " clinic a " -> "clinic a"
      [] s = " 11 " -> "11"
      [] s = " In Office " -> "In Office"
      [] OTHER -> s

\* a lower() that leaves the letters as they are written
LowerAsWritten(s) == s

\* str.lower() on the strings of the model
Lower(s) ==
    CASE s = "Clinic A" -> "clinic a"
      [] s = "Clinic B" -> "clinic b"
      [] s = "Clinic C" -> "clinic c"
      [] s = "Dr Who" -> "dr who"
      [] s = "Dr Who MD" -> "dr who md"
      [] s = "Dr Sched" -> "dr sched"
      [] s = "Dr Ref" -> "dr ref"
      [] s = "Dr Gone" -> "dr gone"
      [] s = "Who Dr MD" -> "who dr md"
      [] s = "Ann Bea" -> "ann bea"
      [] s = "Ann Zed" -> "ann zed"
      [] s = "Ann Bea Cy Di" -> "ann bea cy di"
      [] s = "Ann Bea Cy Di Ed" -> "ann bea cy di ed"
      [] s = "Di Cy Bea Ann PA" -> "di cy bea ann pa"
      [] s = "Physician" -> "physician"
      [] s = "Group Practice" -> "group practice"
      [] s = "In Office" -> "in office"
      [] s = "Office Visit" -> "office visit"
      [] s = "InOffice" -> "inoffice"
      [] s = "Telehealth" -> "telehealth"
      [] s = "Tele Health" -> "tele health"
      [] s = "Telehealth In Office" -> "telehealth in office"
      [] s = "Home Visit" -> "home visit"
      [] s = "NaN" -> "nan"
      [] s = "Normal Provider" -> "normal provider"
      [] s = "Referring Provider" -> "referring provider"
      [] s = "CC" -> "cc"
      [] s = "WIRE" -> "wire"
      [] s = "B1" -> "b1"
      [] OTHER -> s

\* str.upper() on the payment sources of the model
Upper(s) ==
    CASE s = "cc" -> "CC"
      [] s = "check" -> "CHECK"
      [] s = "wire" -> "WIRE"
      [] OTHER -> s

\* float(s): a number in hundredths, the float nan, or ValueError
Num(n) == [k |-> "num", v |-> n]
NotNum(kind) == [k |-> kind, v |-> 0]
ParseFloat(s) ==
    CASE s = "1234.56" -> Num(123456)
      [] s = "25" -> Num(2500)
      [] s = "1" -> Num(100)
      [] s = "2" -> Num(200)
      [] s = "0" -> Num(0)
      [] s = "-5" -> Num(-500)
      [] s = "100" -> Num(10000)
      [] s = "200" -> Num(20000)
      [] s = "nan" -> NotNum("nan")
      [] OTHER -> NotNum(ValueError)

\* f"{x:.2f}" of an amount in hundredths
FormatMoney(c) ==
    ToString(c \div 100) \o "." \o
        (IF c % 100 < 10 THEN "0" \o ToString(c % 100) ELSE ToString(c % 100))

\* str.replace('$', '').replace(',', '') on the amounts of the model
DropCurrency(s) ==
    CASE s = "$1,234.56" -> "1234.56"
      [] s = "$25" -> "25"
      [] OTHER -> s

\* int(float(s)): ValueError for text and for nan
ParseInt(s) ==
    LET f == ParseFloat(s)
    IN IF f.k = "num" THEN Num(f.v \div 100) ELSE NotNum(ValueError)

\* pd.to_datetime(s).date(): a day number, NaT for the text "nan", or an
\* exception
ParseDate(s) ==
    CASE s = "2024-01-01" -> Num(20240101)
      [] s = "2024-01-05" -> Num(20240105)
      [] s = "2024-01-06" -> Num(20240106)
      [] s = "1980-02-03T00:00:00" -> Num(19800203)
      [] s = "nan" -> NotNum("NaT")
      [] OTHER -> NotNum(ValueError)

\* pd.to_datetime(s).strftime('%Y-%m-%d') on the dates of the model
FormatDay(s) ==
    CASE s = "1980-02-03T00:00:00" -> "1980-02-03"
      [] OTHER -> s

\* order of Python strings, as pandas groupby sorts its keys
StrRank(s) ==
    CASE s = " clinic a " -> 1
      [] s = "100" -> 2
      [] s = "200" -> 3
      [] s = "2024-01-05" -> 4
      [] s = "2024-01-06" -> 5
      [] s = "Clinic A" -> 6
      [] s = "Clinic B" -> 7
      [] s = "bad date" -> 8
      [] OTHER -> 9

\* src/src/routes/user.py:223 is_date_value_present
is_date_value_present(v) ==
    IF IsNa(v) THEN FALSE
    ELSE LET s == Strip(PyStr(v)) IN s # "" /\ Lower(s) # "none"

\* a clause of the Error column
Msg(t, a) == [t |-> t, a |-> a, sfx |-> <<>>]

\* a remote diagnostic text (ErrorMessage, SecurityResult, fault message)
RemoteText == "denied"

-----------------------------------------------------------------------------
(* The remote service.  An answer carries the envelopes the code inspects  *)
(* (ErrorResponse.IsError, SecurityResponse.Authorized) and a payload; a   *)
(* fault is the zeep Fault or transport exception raised by the call.      *)

Answer(data) == [fault |-> FALSE, isError |-> FALSE, unauthorized |-> FALSE, data |-> data]
FaultAnswer(data) == [Answer(data) EXCEPT !.fault = TRUE]
ErrorAnswer(data) == [Answer(data) EXCEPT !.isError = TRUE]
AuthAnswer(data) == [Answer(data) EXCEPT !.unauthorized = TRUE]

\* the answers a remote operation can give once `w.faults` non-nominal
\* answers were given: the nominal one, or a failure while the budget lasts
Answers(w, nominal, others) ==
    {nominal} \cup (IF w.faults < MaxFaults THEN others \ {nominal} ELSE {})

\* the failures common to every remote operation
Failures(empty) == {FaultAnswer(empty), ErrorAnswer(empty), AuthAnswer(empty)}

\* the state a function call threads through: caches, call log, budget
World(c, l, f) == [caches |-> c, log |-> l, faults |-> f]

\* the unit of work a call is issued for: phase and row or group number
Ctx(ph, unit) == [ph |-> ph, unit |-> unit]

\* client_obj.service.<op>(request=...): the call is logged with its answer
Call(w, ctx, fn, op, key, req, ans, nominal) ==
    [w EXCEPT !.log = Append(@, [fn |-> fn, op |-> op, key |-> key, req |-> req,
                                 ph |-> ctx.ph, unit |-> ctx.unit, ans |-> ans]),
              !.faults = IF ans = nominal THEN @ ELSE @ + 1]

\* a dictionary that keeps its last entry only
PutAlone(d, k, v) == [x \in {k} |-> v]

\* d[k] = v on a dictionary
Put(d, k, v) == [x \in DOMAIN d \cup {k} |-> IF x = k THEN v ELSE d[x]]
EmptyDict == [x \in {} |-> None]

\* the result of a function call: return value and the world after it
Ret(v, w) == [ret |-> v, w |-> w]

\* the practices, service locations, providers and patient of the service
PracticeDirectory ==
    << [PracticeName |-> "Clinic C", ID |-> "6", Active |-> "true"],
       [PracticeName |-> "Clinic A", ID |-> "8", Active |-> "false"],
       [PracticeName |-> "Clinic A", ID |-> "7", Active |-> "true"],
       [PracticeName |-> "Clinic A", ID |-> "9", Active |-> "false"] >>
InactivePracticeDirectory ==
    << [PracticeName |-> "Clinic A", ID |-> "8", Active |-> "false"],
       [PracticeName |-> "Clinic C", ID |-> "6", Active |-> "true"],
       [PracticeName |-> "Clinic A", ID |-> "9", Active |-> "false"] >>
ServiceLocationDirectory ==
    << [Name |-> "Clinic A", PracticeID |-> "7", ID |-> "70"] >>
ProviderDirectory ==
    << [FullName |-> "Dr Who", Type |-> "Normal Provider", Active |-> "true",
        ID |-> "501", NPI |-> ""],
       [FullName |-> "Dr Sched", Type |-> "Normal Provider", Active |-> "true",
        ID |-> "502", NPI |-> ""],
       [FullName |-> "Dr Ref", Type |-> "Referring Provider", Active |-> "true",
        ID |-> "601", NPI |-> "1234567890"],
       [FullName |-> "Dr Gone", Type |-> "Normal Provider", Active |-> "false",
        ID |-> "503", NPI |-> ""],
       [FullName |-> "Ann Bea Cy Di", Type |-> "Physician", Active |-> "true",
        ID |-> "504", NPI |-> ""],
       [FullName |-> "Di Cy Bea Ann PA", Type |-> "Group Practice", Active |-> "true",
        ID |-> "505", NPI |-> ""] >>
ActivePolicy ==
    [EffectiveStartDate |-> None, EffectiveEndDate |-> None,
     PlanName |-> "Plan P", Number |-> "N1"]
PatientRecord ==
    [FirstName |-> "Pat", LastName |-> "One", DOB |-> "1980-02-03T00:00:00",
     Cases |-> << [IsPrimaryCase |-> "true", PatientCaseID |-> "900",
                   Policies |-> <<ActivePolicy>>] >>]
PatientWithoutCases == [PatientRecord EXCEPT !.Cases = <<>>]

\* policies with dates: one that ended on 2024-01-05, one that starts on
\* 2024-01-06 and is open, one with an end date and no start date
EarlyPolicy ==
    [EffectiveStartDate |-> "2024-01-01", EffectiveEndDate |-> "2024-01-05",
     PlanName |-> "Plan Early", Number |-> "E1"]
LatePolicy ==
    [EffectiveStartDate |-> "2024-01-06", EffectiveEndDate |-> None,
     PlanName |-> "Plan Late", Number |-> "L1"]
EndOnlyPolicy ==
    [EffectiveStartDate |-> None, EffectiveEndDate |-> "2024-01-06",
     PlanName |-> "Plan End", Number |-> "X1"]

\* a patient whose primary case is the second case and holds dated policies
PatientWithDatedPolicies ==
    [PatientRecord EXCEPT !.Cases =
        << [IsPrimaryCase |-> "false", PatientCaseID |-> "901",
            Policies |-> <<ActivePolicy>>],
           [IsPrimaryCase |-> "true", PatientCaseID |-> "900",
            Policies |-> <<EndOnlyPolicy, EarlyPolicy, LatePolicy, ActivePolicy>>] >>]
\* a patient without a primary case, whose first case holds the late policy
PatientWithLatePolicy ==
    [PatientRecord EXCEPT !.Cases =
        << [IsPrimaryCase |-> "false", PatientCaseID |-> "900",
            Policies |-> <<LatePolicy>>] >>]
\* a patient whose primary case holds no policy
PatientWithoutPolicies ==
    [PatientRecord EXCEPT !.Cases =
        << [IsPrimaryCase |-> "true", PatientCaseID |-> "900", Policies |-> <<>>] >>]

GetPracticesAnswers(w) ==
    Answers(w, Answer(PracticeDirectory),
            Failures(<<>>) \cup {Answer(<<>>), Answer(InactivePracticeDirectory)})
GetServiceLocationsAnswers(w) ==
    Answers(w, Answer(ServiceLocationDirectory), Failures(<<>>) \cup {Answer(<<>>)})
GetProvidersAnswers(w) ==
    Answers(w, Answer(ProviderDirectory), Failures(<<>>) \cup {Answer(<<>>)})
GetPatientAnswers(w) ==
    Answers(w, Answer(<<PatientRecord>>),
            Failures(<<>>) \cup {Answer(<<>>), Answer(<<PatientWithoutCases>>),
                                 Answer(<<PatientWithDatedPolicies>>),
                                 Answer(<<PatientWithLatePolicy>>),
                                 Answer(<<PatientWithoutPolicies>>)})

-----------------------------------------------------------------------------
(* Entity resolvers *)

\* a practice scan that takes the first practice of the name, active or not
PracticeScanFirstMatch(list, norm) ==
    LET match == {i \in 1..Len(list) :
                    /\ Lower(Strip(list[i].PracticeName)) = norm
                    /\ Strip(list[i].ID) # ""}
        first == CHOOSE i \in match : \A j \in match : i <= j
    IN IF match # {} THEN Strip(list[first].ID) ELSE None

\* src/src/routes/user.py:272-282: the scan of GetPractices' PracticeData
PracticeScan(list, norm) ==
    LET match == {i \in 1..Len(list) :
                    /\ Lower(Strip(list[i].PracticeName)) = norm
                    /\ Strip(list[i].ID) # ""}
        active == {i \in match : Lower(list[i].Active) = "true"}
        first_active == CHOOSE i \in active : \A j \in active : i <= j
        inactive == {i \in match : \A j \in active : i < j}
        last_inactive == CHOOSE i \in inactive : \A j \in inactive : j <= i
    IN IF active # {} THEN Strip(list[first_active].ID)
       ELSE IF inactive # {} THEN Strip(list[last_inactive].ID)
       ELSE None

\* a practice resolver that answers a failed lookup with an ID
PracticeOutcomeNeverFails(ans, norm) ==
    IF ans.fault \/ ans.isError \/ ans.unauthorized
    THEN [ret |-> "7", cached |-> FALSE]
    ELSE IF ans.data # <<>>
         THEN [ret |-> PracticeScan(ans.data, norm), cached |-> TRUE]
         ELSE [ret |-> None, cached |-> TRUE]

\* how get_practice_id_by_name treats an answer: [ret, cached], where cached
\* says whether the result is stored under the key (lines 265-290)
PracticeOutcome(ans, norm) ==
    IF ans.fault \/ ans.isError \/ ans.unauthorized
    THEN [ret |-> None, cached |-> FALSE]
    ELSE IF ans.data # <<>>
         THEN [ret |-> PracticeScan(ans.data, norm), cached |-> TRUE]
         ELSE [ret |-> None, cached |-> TRUE]

\* src/src/routes/user.py:246 get_practice_id_by_name
get_practice_id_by_name(practice_name_to_find, w, ctx) ==
    IF IsNa(practice_name_to_find) \/ Strip(PyStr(practice_name_to_find)) = ""
    THEN {Ret(None, w)}
    ELSE LET norm == Lower(Strip(PyStr(practice_name_to_find)))
         IN IF norm \in DOMAIN w.caches.practice
            THEN {Ret(w.caches.practice[norm], w)}
            ELSE { LET o == PracticeOutcome(ans, norm)
                       w1 == Call(w, ctx, "get_practice_id_by_name", "GetPractices", <<norm>>, <<>>, ans,
                                  Answer(PracticeDirectory))
                   IN Ret(o.ret,
                          IF o.cached
                          THEN [w1 EXCEPT !.caches.practice = Put(@, norm, o.ret)]
                          ELSE w1)
                   : ans \in GetPracticesAnswers(w) }


\* src/src/routes/user.py:563-571: the scan of ServiceLocationData; the first
\* entry of the practice with the name ends the scan, with or without an ID
ServiceLocationScan(list, practice_id, norm) ==
    LET match == {i \in 1..Len(list) :
                    /\ Strip(list[i].PracticeID) = practice_id
                    /\ Lower(Strip(list[i].Name)) = norm}
        first == CHOOSE i \in match : \A j \in match : i <= j
    IN IF match # {} /\ Strip(list[first].ID) # "" THEN Strip(list[first].ID)
       ELSE None

\* how get_service_location_id_by_name treats an answer (lines 553-580)
ServiceLocationOutcome(ans, practice_id, norm) ==
    IF ans.fault \/ ans.isError \/ ans.unauthorized
    THEN [ret |-> None, cached |-> FALSE]
    ELSE IF ans.data # <<>>
         THEN [ret |-> ServiceLocationScan(ans.data, practice_id, norm), cached |-> TRUE]
         ELSE [ret |-> None, cached |-> TRUE]

\* src/src/routes/user.py:530 get_service_location_id_by_name
get_service_location_id_by_name(service_location_name_to_find, current_practice_id_context, w, ctx) ==
    IF IsNa(service_location_name_to_find) \/ Strip(PyStr(service_location_name_to_find)) = ""
    THEN {Ret(None, w)}
    ELSE IF IsNa(current_practice_id_context) THEN {Ret(None, w)}
    ELSE LET norm == Lower(Strip(PyStr(service_location_name_to_find)))
             cache_key == <<current_practice_id_context, norm>>
         IN IF cache_key \in DOMAIN w.caches.service_location
            THEN {Ret(w.caches.service_location[cache_key], w)}
            ELSE { LET o == ServiceLocationOutcome(ans, current_practice_id_context, norm)
                       w1 == Call(w, ctx, "get_service_location_id_by_name", "GetServiceLocations", cache_key, <<>>, ans,
                                  Answer(ServiceLocationDirectory))
                   IN Ret(o.ret,
                          IF o.cached
                          THEN [w1 EXCEPT !.caches.service_location = Put(@, cache_key, o.ret)]
                          ELSE w1)
                   : ans \in GetServiceLocationsAnswers(w) }

\* re.split(r'[\s,.]+', name), lower-cased, on the names of the model
NameTokens(s) ==
    CASE s = "Dr Who" -> <<"dr", "who">>
      [] s = "Dr Who MD" -> <<"dr", "who", "md">>
      [] s = "Dr Sched" -> <<"dr", "sched">>
      [] s = "Dr Ref" -> <<"dr", "ref">>
      [] s = "dr who" -> <<"dr", "who">>
      [] s = "Dr Gone" -> <<"dr", "gone">>
      [] s = "Who Dr MD" -> <<"who", "dr", "md">>
      [] s = "Ann Bea" -> <<"ann", "bea">>
      [] s = "Ann Zed" -> <<"ann", "zed">>
      [] s = "Ann Bea Cy Di" -> <<"ann", "bea", "cy", "di">>
      [] s = "Ann Bea Cy Di Ed" -> <<"ann", "bea", "cy", "di", "ed">>
      [] s = "Di Cy Bea Ann PA" -> <<"di", "cy", "bea", "ann", "pa">>
      [] s = "nan" -> <<"nan">>
      [] OTHER -> <<Lower(s)>>

\* src/src/routes/user.py:616 the credential and organisation tokens
CredentialTokens ==
    {"md", "do", "pa", "np", "lcsw", "msw", "inc", "llc", "pc", "group",
     "associates", "services", "medical"}

\* the terms of a name; the whole name when every token is a credential
SearchTerms(name) ==
    LET toks == {NameTokens(name)[i] : i \in 1..Len(NameTokens(name))} \ (CredentialTokens \cup {""})
    IN IF toks = {} THEN {Lower(name)} ELSE toks

\* src/src/routes/user.py:598
ACCEPTABLE_RS_TYPES == {"normal provider", "physician", "group practice"}

\* a provider scan that accepts a candidate holding four fifths of the terms
ProviderScanPartialCoverage(list, search_name) ==
    LET usable == {i \in 1..Len(list) :
                     /\ Lower(list[i].Active) = "true"
                     /\ Strip(list[i].FullName) # ""
                     /\ Strip(list[i].ID) # ""
                     /\ Lower(Strip(list[i].Type)) \in ACCEPTABLE_RS_TYPES}
        exact == {i \in usable : Lower(Strip(list[i].FullName)) = Lower(search_name)}
        flexible == {i \in usable :
                       5 * Cardinality(SearchTerms(search_name)
                                       \cap SearchTerms(Strip(list[i].FullName)))
                          >= 4 * Cardinality(SearchTerms(search_name))}
        pick(S) == Strip(list[CHOOSE i \in S : \A j \in S : i <= j].ID)
    IN IF exact # {} THEN pick(exact)
       ELSE IF flexible # {} THEN pick(flexible)
       ELSE None

\* src/src/routes/user.py:612-651: exact active match of an acceptable type,
\* else the first active candidate of an acceptable type holding every term
ProviderScan(list, search_name) ==
    LET usable == {i \in 1..Len(list) :
                     /\ Lower(list[i].Active) = "true"
                     /\ Strip(list[i].FullName) # ""
                     /\ Strip(list[i].ID) # ""
                     /\ Lower(Strip(list[i].Type)) \in ACCEPTABLE_RS_TYPES}
        exact == {i \in usable : Lower(Strip(list[i].FullName)) = Lower(search_name)}
        flexible == {i \in usable :
                       SearchTerms(search_name) \subseteq
                           (IF {NameTokens(Strip(list[i].FullName))[j] :
                                  j \in 1..Len(NameTokens(Strip(list[i].FullName)))}
                               \ (CredentialTokens \cup {""}) = {}
                            THEN {Lower(Strip(list[i].FullName))}
                            ELSE {NameTokens(Strip(list[i].FullName))[j] :
                                    j \in 1..Len(NameTokens(Strip(list[i].FullName)))}
                                 \ (CredentialTokens \cup {""}))}
        pick(S) == Strip(list[CHOOSE i \in S : \A j \in S : i <= j].ID)
    IN IF exact # {} THEN pick(exact)
       ELSE IF flexible # {} THEN pick(flexible)
       ELSE None

\* how get_provider_id_by_name_phase3 treats an answer: every outcome,
\* failures included, is stored under the key (lines 606-659)
ProviderOutcome(ans, search_name) ==
    IF ans.fault \/ ans.isError \/ ans.unauthorized
    THEN [ret |-> None, cached |-> TRUE]
    ELSE IF ans.data # <<>>
         THEN [ret |-> ProviderScan(ans.data, search_name), cached |-> TRUE]
         ELSE [ret |-> None, cached |-> TRUE]

\* src/src/routes/user.py:583 get_provider_id_by_name_phase3
get_provider_id_by_name_phase3(provider_name_excel, current_tebra_practice_id, w, ctx) ==
    IF IsNa(provider_name_excel) \/ Strip(PyStr(provider_name_excel)) = ""
    THEN {Ret(None, w)}
    ELSE IF IsNa(current_tebra_practice_id) THEN {Ret(None, w)}
    ELSE LET search_name == Strip(PyStr(provider_name_excel))
             cache_key == <<current_tebra_practice_id, Lower(search_name)>>
         IN IF cache_key \in DOMAIN w.caches.provider
            THEN {Ret(w.caches.provider[cache_key], w)}
            ELSE { LET o == ProviderOutcome(ans, search_name)
                       w1 == Call(w, ctx, "get_provider_id_by_name_phase3", "GetProviders", cache_key, <<>>, ans,
                                  Answer(ProviderDirectory))
                   IN Ret(o.ret,
                          IF o.cached
                          THEN [w1 EXCEPT !.caches.provider = Put(@, cache_key, o.ret)]
                          ELSE w1)
                   : ans \in GetProvidersAnswers(w) }

\* the details record of a referring provider, or NoDetails for not found
NoDetails == [ProviderID |-> None, NPI |-> None]

\* src/src/routes/user.py:696-718: first active provider of type
\* "referring provider" whose full name is the searched name
ReferringScan(list, search_name) ==
    LET match == {i \in 1..Len(list) :
                    /\ Lower(list[i].Active) = "true"
                    /\ Lower(Strip(list[i].FullName)) = Lower(search_name)
                    /\ Lower(Strip(list[i].Type)) = "referring provider"}
        first == CHOOSE i \in match : \A j \in match : i <= j
    IN IF match = {} THEN NoDetails
       ELSE [ProviderID |-> IF Strip(list[first].ID) # "" THEN Strip(list[first].ID) ELSE None,
             NPI |-> IF Strip(list[first].NPI) # "" THEN Strip(list[first].NPI) ELSE None]

\* how get_referring_provider_details_for_encounter treats an answer: only
\* an answer with provider data is stored (lines 686-730)
ReferringOutcome(ans, search_name) ==
    IF ans.fault \/ ans.isError \/ ans.unauthorized
    THEN [ret |-> NoDetails, cached |-> FALSE]
    ELSE IF ans.data # <<>>
         THEN [ret |-> ReferringScan(ans.data, search_name), cached |-> TRUE]
         ELSE [ret |-> NoDetails, cached |-> FALSE]

\* src/src/routes/user.py:662 get_referring_provider_details_for_encounter
get_referring_provider_details_for_encounter(ref_provider_name_excel, current_tebra_practice_id, w, ctx) ==
    IF IsNa(ref_provider_name_excel) \/ Strip(PyStr(ref_provider_name_excel)) = ""
    THEN {Ret(NoDetails, w)}
    ELSE IF IsNa(current_tebra_practice_id) THEN {Ret(NoDetails, w)}
    ELSE LET search_name == Strip(PyStr(ref_provider_name_excel))
             cache_key == <<current_tebra_practice_id, Lower(search_name)>>
         IN IF cache_key \in DOMAIN w.caches.referring
            THEN {Ret(w.caches.referring[cache_key], w)}
            ELSE { LET o == ReferringOutcome(ans, search_name)
                       w1 == Call(w, ctx, "get_referring_provider_details_for_encounter", "GetProviders", cache_key, <<>>, ans,
                                  Answer(ProviderDirectory))
                   IN Ret(o.ret,
                          IF o.cached
                          THEN [w1 EXCEPT !.caches.referring = Put(@, cache_key, o.ret)]
                          ELSE w1)
                   : ans \in GetProvidersAnswers(w) }

\* src/src/routes/user.py:757-773: the primary case with an ID, else the
\* first case when it has an ID
CaseScan(patients) ==
    IF patients = <<>> \/ patients[1].Cases = <<>> THEN None
    ELSE LET cases == patients[1].Cases
             primary == {i \in 1..Len(cases) :
                           Lower(cases[i].IsPrimaryCase) = "true" /\ cases[i].PatientCaseID # None}
             first == CHOOSE i \in primary : \A j \in primary : i <= j
             found == IF primary # {} THEN Strip(cases[first].PatientCaseID)
                      ELSE IF cases[1].PatientCaseID # None THEN Strip(cases[1].PatientCaseID)
                      ELSE None
         IN IF found = "" THEN None ELSE found

\* how get_case_id_for_patient_phase3 treats an answer: every outcome,
\* failures included, is stored under the key (lines 746-778)
CaseOutcome(ans) ==
    IF ans.fault \/ ans.isError \/ ans.unauthorized
    THEN [ret |-> None, cached |-> TRUE]
    ELSE [ret |-> CaseScan(ans.data), cached |-> TRUE]

\* src/src/routes/user.py:733 get_case_id_for_patient_phase3; the argument
\* is the patient number the caller parsed
get_case_id_for_patient_phase3(patient_id_val, w, ctx) ==
    LET cache_key == <<ToString(patient_id_val)>>
    IN IF cache_key \in DOMAIN w.caches.case
       THEN {Ret(w.caches.case[cache_key], w)}
       ELSE { LET o == CaseOutcome(ans)
                  w1 == Call(w, ctx, "get_case_id_for_patient_phase3", "GetPatient", cache_key, <<>>, ans,
                             Answer(<<PatientRecord>>))
              IN Ret(o.ret,
                     IF o.cached
                     THEN [w1 EXCEPT !.caches.case = Put(@, cache_key, o.ret)]
                     ELSE w1)
              : ans \in GetPatientAnswers(w) }


-----------------------------------------------------------------------------
(* Phase 1: patient and insurance *)

NoMsg == Msg("", "")

\* date <= date; a comparison with NaT is false or raises, and what raises
\* inside the test of a policy leaves the policy inactive
DateLeq(a, b) == a.k = "num" /\ b.k = "num" /\ a.v <= b.v

\* src/src/routes/user.py:345-363: is the policy active on the day of service
PolicyActiveOnDos(policy, dos_date_obj) ==
    LET has_valid_start == is_date_value_present(policy.EffectiveStartDate)
        has_valid_end == is_date_value_present(policy.EffectiveEndDate)
        start == ParseDate(policy.EffectiveStartDate)
        end == ParseDate(policy.EffectiveEndDate)
    IN IF has_valid_start
       THEN /\ DateLeq(start, dos_date_obj)
            /\ (~has_valid_end \/ DateLeq(dos_date_obj, end))
       ELSE ~has_valid_end

\* an insurance check that takes the last active policy of the case
InsuranceOnDosLastActive(pt_data, dos_date_obj) ==
    IF pt_data.Cases = <<>>
    THEN [name |-> None, id |-> None, status |-> "No Case Data for Ins. Check"]
    ELSE LET cases == pt_data.Cases
             prim == {i \in 1..Len(cases) : Lower(cases[i].IsPrimaryCase) = "true"}
             case == IF prim # {} THEN cases[CHOOSE i \in prim : \A j \in prim : i <= j]
                     ELSE cases[1]
             policies == case.Policies
             act == {i \in 1..Len(policies) : PolicyActiveOnDos(policies[i], dos_date_obj)}
             last == CHOOSE i \in act : \A j \in act : j <= i
         IN IF policies = <<>>
            THEN [name |-> None, id |-> None, status |-> "No Ins. Policies on Primary Case"]
            ELSE IF act = {}
            THEN [name |-> None, id |-> None, status |-> "No Primary Active Ins. Found"]
            ELSE [name |-> Strip(policies[last].PlanName),
                  id |-> Strip(policies[last].Number), status |-> "Active"]

\* src/src/routes/user.py:332-374: the insurance part of Phase 1 for a
\* fetched patient and a valid day of service: [name, id, status]
InsuranceOnDos(pt_data, dos_date_obj) ==
    IF pt_data.Cases = <<>>
    THEN [name |-> None, id |-> None, status |-> "No Case Data for Ins. Check"]
    ELSE LET cases == pt_data.Cases
             prim == {i \in 1..Len(cases) : Lower(cases[i].IsPrimaryCase) = "true"}
             case == IF prim # {} THEN cases[CHOOSE i \in prim : \A j \in prim : i <= j]
                     ELSE cases[1]
             policies == case.Policies
             act == {i \in 1..Len(policies) : PolicyActiveOnDos(policies[i], dos_date_obj)}
             first == CHOOSE i \in act : \A j \in act : i <= j
         IN IF policies = <<>>
            THEN [name |-> None, id |-> None, status |-> "No Ins. Policies on Primary Case"]
            ELSE IF act = {}
            THEN [name |-> None, id |-> None, status |-> "No Primary Active Ins. Found"]
            ELSE [name |-> Strip(policies[first].PlanName),
                  id |-> Strip(policies[first].Number), status |-> "Active"]

P1Result(name, dob, ins, insid, status, err) ==
    [FetchedPatientName |-> name, FetchedPatientDOB |-> dob,
     FetchedInsuranceName |-> ins, FetchedInsuranceID |-> insid,
     FetchedInsuranceStatus |-> status, SimpleError |-> err]

\* a Phase 1 that leaves the status of a response without a patient as it
\* was initialised
Phase1OutcomeStatusUnset(ans, dos_available, dos_date_obj, dos_error) ==
    IF ans.fault
    THEN P1Result(None, None, None, None, "SOAP Error (Patient)",
                  Msg("SOAP Fault(GetPt): %s", RemoteText))
    ELSE IF ans.isError
    THEN P1Result(None, None, None, None, "API Error (Patient)",
                  Msg("API Err(GetPt): %s", RemoteText))
    ELSE IF ans.unauthorized
    THEN P1Result(None, None, None, None, "API Auth Error (Patient)",
                  Msg("API Auth Err(GetPt): %s", RemoteText))
    ELSE IF ans.data = <<>>
    THEN P1Result(None, None, None, None, "Error during fetch",
                  Msg("Patient data not in API resp.", ""))
    ELSE LET pt_data == ans.data[1]
             full == Strip(pt_data.FirstName \o " " \o pt_data.LastName)
             name == IF full = "" THEN None ELSE full
             dob == IF is_date_value_present(pt_data.DOB) THEN FormatDay(pt_data.DOB) ELSE None
             ins == InsuranceOnDos(pt_data, dos_date_obj)
         IN IF ~dos_available
            THEN P1Result(name, dob, None, None, "Ins. Check Skipped (No Valid DOS)", dos_error)
            ELSE P1Result(name, dob, ins.name, ins.id, ins.status, dos_error)

\* src/src/routes/user.py:317-377: Phase 1 after the GetPatient answer
Phase1Outcome(ans, dos_available, dos_date_obj, dos_error) ==
    IF ans.fault
    THEN P1Result(None, None, None, None, "SOAP Error (Patient)",
                  Msg("SOAP Fault(GetPt): %s", RemoteText))
    ELSE IF ans.isError
    THEN P1Result(None, None, None, None, "API Error (Patient)",
                  Msg("API Err(GetPt): %s", RemoteText))
    ELSE IF ans.unauthorized
    THEN P1Result(None, None, None, None, "API Auth Error (Patient)",
                  Msg("API Auth Err(GetPt): %s", RemoteText))
    ELSE IF ans.data = <<>>
    THEN P1Result(None, None, None, None, "Patient Not Found",
                  Msg("Patient data not in API resp.", ""))
    ELSE LET pt_data == ans.data[1]
             full == Strip(pt_data.FirstName \o " " \o pt_data.LastName)
             name == IF full = "" THEN None ELSE full
             dob == IF is_date_value_present(pt_data.DOB) THEN FormatDay(pt_data.DOB) ELSE None
             ins == InsuranceOnDos(pt_data, dos_date_obj)
         IN IF ~dos_available
            THEN P1Result(name, dob, None, None, "Ins. Check Skipped (No Valid DOS)", dos_error)
            ELSE P1Result(name, dob, ins.name, ins.id, ins.status, dos_error)

\* src/src/routes/user.py:293 phase1_fetch_patient_and_insurance
phase1_fetch_patient_and_insurance(patient_id_str, dos_str, w, ctx) ==
    IF IsNa(patient_id_str) \/ Strip(PyStr(patient_id_str)) = ""
    THEN {Ret(P1Result(None, None, None, None, "Patient ID Missing",
                       Msg("Patient ID is missing.", "")), w)}
    ELSE IF ParseInt(Strip(PyStr(patient_id_str))).k # "num"
    THEN {Ret(P1Result(None, None, None, None, "Invalid Patient ID",
                       Msg("Invalid Patient ID format: '%s'.", patient_id_str)), w)}
    ELSE LET present == is_date_value_present(dos_str)
             day == ParseDate(dos_str)
             dos_available == present /\ day.k # ValueError
             dos_error == IF present /\ day.k = ValueError
                          THEN Msg("Invalid DOS '%s': ...", dos_str) ELSE NoMsg
         IN { Ret(Phase1Outcome(ans, dos_available, day, dos_error),
                  Call(w, ctx, "phase1_fetch_patient_and_insurance", "GetPatient",
                       <<ToString(ParseInt(Strip(PyStr(patient_id_str))).v)>>, <<>>, ans,
                       Answer(<<PatientRecord>>)))
              : ans \in GetPatientAnswers(w) }

-----------------------------------------------------------------------------
(* Phase 2: payment posting *)

\* src/src/routes/user.py:230 PAYMENT_SOURCE_TO_CODE
PAYMENT_SOURCE_TO_CODE ==
    [s \in {"CHECK", "CREDIT CARD", "CC", "ELECTRONIC FUNDS TRANSFER", "EFT", "CASH"} |->
        CASE s = "CHECK" -> "1"
          [] s \in {"CREDIT CARD", "CC"} -> "3"
          [] s \in {"ELECTRONIC FUNDS TRANSFER", "EFT"} -> "4"
          [] OTHER -> "5"]

\* src/src/routes/user.py:239 get_payment_source_code
get_payment_source_code(source_str) ==
    IF IsNa(source_str) \/ source_str = "" THEN None
    ELSE LET normalized_source == Upper(Strip(PyStr(source_str)))
         IN IF normalized_source \in DOMAIN PAYMENT_SOURCE_TO_CODE
            THEN PAYMENT_SOURCE_TO_CODE[normalized_source] ELSE None

\* `val and str(val).strip() and str(val).strip().lower() != 'nan'`
CellGiven(v) ==
    v # None /\ v # "" /\ Strip(PyStr(v)) # "" /\ Lower(Strip(PyStr(v))) # "nan"

\* the payment IDs the service hands out, and its CreatePayment answers:
\* data is the PaymentID of the response, 0 when the response carries none
NewPaymentID(ctx) == 40 + ctx.unit
CreatePaymentAnswers(w, ctx) ==
    Answers(w, Answer(NewPaymentID(ctx)),
            Failures(0) \cup {Answer(0), ErrorAnswer(NewPaymentID(ctx)),
                              AuthAnswer(NewPaymentID(ctx))})

P2Result(success, message, payment_id) ==
    [Success |-> success, SimpleMessage |-> message, PaymentID |-> payment_id]

\* Phase 2 taking a response without flags for a posted payment, with or
\* without a payment ID
Phase2OutcomeLenient(ans) ==
    IF ans.fault THEN P2Result(FALSE, Msg("P2 Failed (SOAP Error).", ""), None)
    ELSE IF ans.isError
    THEN P2Result(FALSE, Msg("P2 API Error (%s...)", RemoteText), None)
    ELSE IF ans.unauthorized
    THEN P2Result(FALSE, Msg("P2 API Auth Error.", ""), None)
    ELSE P2Result(TRUE, Msg("Payment #%s Posted.", ToString(ans.data)), ToString(ans.data))

\* Phase 2 looking at the payment ID before the error and auth flags
Phase2OutcomeIdFirst(ans) ==
    IF ans.fault THEN P2Result(FALSE, Msg("P2 Failed (SOAP Error).", ""), None)
    ELSE IF ans.data > 0
    THEN P2Result(TRUE, Msg("Payment #%s Posted.", ToString(ans.data)), ToString(ans.data))
    ELSE IF ans.isError
    THEN P2Result(FALSE, Msg("P2 API Error (%s...)", RemoteText), None)
    ELSE IF ans.unauthorized
    THEN P2Result(FALSE, Msg("P2 API Auth Error.", ""), None)
    ELSE P2Result(FALSE, Msg("P2 Status Unknown (Tebra resp unclear).", ""), None)

\* src/src/routes/user.py:461-481: Phase 2 after the CreatePayment answer
Phase2Outcome(ans) ==
    IF ans.fault THEN P2Result(FALSE, Msg("P2 Failed (SOAP Error).", ""), None)
    ELSE IF ans.isError
    THEN P2Result(FALSE, Msg("P2 API Error (%s...)", RemoteText), None)
    ELSE IF ans.unauthorized
    THEN P2Result(FALSE, Msg("P2 API Auth Error.", ""), None)
    ELSE IF ans.data > 0
    THEN P2Result(TRUE, Msg("Payment #%s Posted.", ToString(ans.data)), ToString(ans.data))
    ELSE P2Result(FALSE, Msg("P2 Status Unknown (Tebra resp unclear).", ""), None)

\* src/src/routes/user.py:382 phase2_post_tebra_payment
phase2_post_tebra_payment(patient_id_str, resolved_practice_id_str, pp_batch_str, payment_amount_input_str, payment_source_input_str, w, ctx) ==
    LET amount == ParseFloat(Strip(DropCurrency(PyStr(payment_amount_input_str))))
    IN IF ~(CellGiven(pp_batch_str) /\ CellGiven(payment_amount_input_str)
            /\ CellGiven(payment_source_input_str))
       THEN {Ret(P2Result(FALSE, Msg("P2 Skipped: Missing one or more core payment inputs (Batch, Amount, Source).", ""), None), w)}
       ELSE IF \E v \in {patient_id_str, resolved_practice_id_str} :
                  IsNa(v) \/ Strip(PyStr(v)) = "" \/ Lower(Strip(PyStr(v))) = "nan"
       THEN {Ret(P2Result(FALSE, Msg("P2 Skipped: Missing/invalid data for: %s.", "fields"), None), w)}
       ELSE IF amount.k = ValueError
       THEN {Ret(P2Result(FALSE, Msg("P2 Invalid: Payment amount format '%s'.", payment_amount_input_str), None), w)}
       ELSE IF amount.k = "num" /\ amount.v <= 0
       THEN {Ret(P2Result(FALSE, Msg("P2 Invalid: Payment amount $%s must be > 0.", FormatMoney(amount.v)), None), w)}
       ELSE IF get_payment_source_code(payment_source_input_str) = None
       THEN {Ret(P2Result(FALSE, Msg("P2 Invalid: Unmapped payment source '%s'.", payment_source_input_str), None), w)}
       ELSE { Ret(Phase2Outcome(ans),
                  Call(w, ctx, "phase2_post_tebra_payment", "CreatePayment",
                       <<ToString(ctx.unit)>>,
                       <<Strip(PyStr(resolved_practice_id_str)), FormatMoney(amount.v),
                         get_payment_source_code(payment_source_input_str)>>,
                       ans, Answer(NewPaymentID(ctx))))
              : ans \in CreatePaymentAnswers(w, ctx) }


-----------------------------------------------------------------------------
(* Phase 3: encounter creation for one group *)

\* src/src/routes/user.py:521 format_datetime_for_api_phase3
format_datetime_for_api_phase3(date_value) ==
    IF IsNa(date_value) THEN None
    ELSE IF ParseDate(date_value).k = "num" THEN date_value \o "T00:00:00"
    ELSE None

\* src/src/routes/user.py:509 ENCOUNTER_STATUS_CODE_MAP_PHASE3
ENCOUNTER_STATUS_CODE_MAP_PHASE3 ==
    [c \in {"0", "1", "2", "3", "4", "5", "6", "7"} |->
        CASE c = "0" -> "Undefined" [] c = "1" -> "Draft" [] c = "2" -> "Review"
          [] c = "3" -> "Approved" [] c = "4" -> "Rejected" [] c = "5" -> "Billed"
          [] c = "6" -> "Unpayable" [] OTHER -> "Pending"]

\* src/src/routes/user.py:515 map_encounter_status_code
map_encounter_status_code(status_code_str) ==
    IF IsNa(status_code_str) \/ Strip(PyStr(status_code_str)) = "" THEN "Status N/A"
    ELSE IF Strip(PyStr(status_code_str)) \in DOMAIN ENCOUNTER_STATUS_CODE_MAP_PHASE3
    THEN ENCOUNTER_STATUS_CODE_MAP_PHASE3[Strip(PyStr(status_code_str))]
    ELSE "Unknown Code (" \o PyStr(status_code_str) \o ")"

\* src/src/routes/user.py:826 clean_value_p3 (not a modifier)
clean_value_p3(val) ==
    LET s_val == Strip(IF IsNa(val) THEN "" ELSE val)
    IN IF s_val # "" /\ Lower(s_val) # "nan" THEN s_val ELSE None

\* a value is missing for a service line: None, NaN, blank or 'nan'
LineCellMissing(v) ==
    v = None \/ IsNa(v) \/ Strip(PyStr(v)) = "" \/ Lower(Strip(PyStr(v))) = "nan"

\* the return value None of create_service_line_payload_phase3
NoLine == [ProcedureCode |-> None, Units |-> None, DiagnosisCode1 |-> None]

\* src/src/routes/user.py:809 create_service_line_payload_phase3: the
\* service line of a row, or NoLine
create_service_line_payload_phase3(service_line_data_dict) ==
    LET proc_code == Strip(PyStr(service_line_data_dict.Procedures))
        units_val == service_line_data_dict.Units
        diag1_val == service_line_data_dict.Diag1
        units_float == ParseFloat(Strip(PyStr(units_val)))
    IN IF proc_code = "" THEN NoLine
       ELSE IF LineCellMissing(units_val) THEN NoLine
       ELSE IF LineCellMissing(diag1_val) THEN NoLine
       ELSE IF units_float.k = ValueError THEN NoLine
       ELSE IF units_float.k = "num" /\ units_float.v <= 0 THEN NoLine
       ELSE IF clean_value_p3(diag1_val) = None THEN NoLine
       ELSE [ProcedureCode |-> proc_code, Units |-> Strip(PyStr(units_val)),
             DiagnosisCode1 |-> clean_value_p3(diag1_val)]

\* the answers of GetEncounterDetails and GetCharges for an encounter
GetEncounterDetailsAnswers(w) ==
    Answers(w, Answer(<<[EncounterStatus |-> "1"]>>), Failures(<<>>) \cup {Answer(<<>>)})
\* the charge lines of the day: two of the encounter, one of another
\* encounter of the patient, one of the encounter number under another
\* patient, and two of the encounter without an amount that is a number
ChargesOf(enc, pid) ==
    << [PatientID |-> pid, EncounterID |-> enc, TotalCharges |-> "100"],
       [PatientID |-> pid, EncounterID |-> "999", TotalCharges |-> "25"],
       [PatientID |-> "300", EncounterID |-> enc, TotalCharges |-> "25"],
       [PatientID |-> pid, EncounterID |-> enc, TotalCharges |-> None],
       [PatientID |-> pid, EncounterID |-> enc, TotalCharges |-> "25"],
       [PatientID |-> pid, EncounterID |-> enc, TotalCharges |-> "abc"] >>
\* charge lines of which none is of the encounter
OtherChargesOf(enc, pid) ==
    << [PatientID |-> pid, EncounterID |-> "999", TotalCharges |-> "25"],
       [PatientID |-> "300", EncounterID |-> enc, TotalCharges |-> "25"] >>
GetChargesAnswers(w, enc, pid) ==
    Answers(w, Answer(ChargesOf(enc, pid)),
            Failures(<<>>) \cup {Answer(<<>>), Answer(OtherChargesOf(enc, pid))})

\* src/src/routes/user.py:910-923: get_encounter_details_phase3 after the
\* answer: [RawEncounterStatusCode, SimpleError]
EncounterDetailsOutcome(ans) ==
    IF ans.fault
    THEN [RawEncounterStatusCode |-> None, SimpleError |-> "SOAP FAULT (GetEncStatus): " \o RemoteText]
    ELSE IF ans.isError
    THEN [RawEncounterStatusCode |-> None, SimpleError |-> "API Error (GetEncStatus): " \o RemoteText]
    ELSE IF ans.unauthorized
    THEN [RawEncounterStatusCode |-> None, SimpleError |-> "API Auth Error (GetEncStatus): " \o RemoteText]
    ELSE IF ans.data # <<>>
    THEN [RawEncounterStatusCode |-> ans.data[1].EncounterStatus, SimpleError |-> None]
    ELSE [RawEncounterStatusCode |-> None,
          SimpleError |-> "Unknown response structure from GetEncounterDetails."]

\* src/src/routes/user.py:893 get_encounter_details_phase3
get_encounter_details_phase3(encounter_id_str, tebra_practice_id_for_filter_str, w, ctx) ==
    IF encounter_id_str \in {None, "", "-1"} \/ tebra_practice_id_for_filter_str \in {None, ""}
       \/ Strip(tebra_practice_id_for_filter_str) = ""
    THEN {Ret([RawEncounterStatusCode |-> None,
               SimpleError |-> "EncID or TebraPracticeID missing/invalid for GetEncounterDetails."], w)}
    ELSE { Ret(EncounterDetailsOutcome(ans),
               Call(w, ctx, "get_encounter_details_phase3", "GetEncounterDetails",
                    <<encounter_id_str, tebra_practice_id_for_filter_str>>, <<>>, ans,
                    Answer(<<[EncounterStatus |-> "1"]>>)))
           : ans \in GetEncounterDetailsAnswers(w) }

\* a sum over the charge lines of the encounter number, whatever the patient
RECURSIVE SumChargesAnyPatient(_, _, _)
SumChargesAnyPatient(list, pid, enc) ==
    IF list = <<>> THEN [found |-> FALSE, total |-> 0]
    ELSE LET rest == SumChargesAnyPatient(Tail(list), pid, enc)
             item == Head(list)
             tc == ParseFloat(Strip(PyStr(item.TotalCharges)))
             counts == /\ Strip(item.EncounterID) = Strip(enc)
                       /\ item.TotalCharges # None
                       /\ tc.k = "num"
         IN IF counts THEN [found |-> TRUE, total |-> tc.v + rest.total] ELSE rest

\* src/src/routes/user.py:1003-1032: the sum over the charge lines of the
\* target patient and encounter, in hundredths; None when no line counts
RECURSIVE SumCharges(_, _, _)
SumCharges(list, pid, enc) ==
    IF list = <<>> THEN [found |-> FALSE, total |-> 0]
    ELSE LET rest == SumCharges(Tail(list), pid, enc)
             item == Head(list)
             tc == ParseFloat(Strip(PyStr(item.TotalCharges)))
             counts == /\ Strip(item.PatientID) = Strip(pid)
                       /\ Strip(item.EncounterID) = Strip(enc)
                       /\ item.TotalCharges # None
                       /\ Strip(PyStr(item.TotalCharges)) # ""
                       /\ Lower(PyStr(item.TotalCharges)) # "none"
                       /\ tc.k = "num"
         IN IF counts THEN [found |-> TRUE, total |-> tc.v + rest.total] ELSE rest

\* src/src/routes/user.py:987-1044: get_total_charge_amount_for_encounter_phase3
\* after the answer: [TotalChargeAmount, SimpleError]
ChargesOutcome(ans, pid, enc) ==
    LET sum == SumCharges(ans.data, pid, enc)
    IN IF ans.fault
       THEN [TotalChargeAmount |-> "Error", SimpleError |-> "SOAP FAULT (GetCharges): " \o RemoteText]
       ELSE IF ans.isError
       THEN [TotalChargeAmount |-> "Error", SimpleError |-> "API Error (GetCharges): " \o RemoteText]
       ELSE IF ans.unauthorized
       THEN [TotalChargeAmount |-> "Error", SimpleError |-> "API Auth Error (GetCharges): " \o RemoteText]
       ELSE IF sum.found
       THEN [TotalChargeAmount |-> FormatMoney(sum.total), SimpleError |-> None]
       ELSE [TotalChargeAmount |-> "0.00", SimpleError |-> None]

\* src/src/routes/user.py:930 get_total_charge_amount_for_encounter_phase3
get_total_charge_amount_for_encounter_phase3(target_encounter_id_str, target_patient_id_str, practice_name_filter_str, dos_filter_str, list_of_procedure_codes_on_encounter, w, ctx) ==
    IF \/ target_encounter_id_str \in {None, "", "-1"}
       \/ target_patient_id_str \in {None, ""}
       \/ practice_name_filter_str \in {None, ""}
       \/ dos_filter_str \in {None, ""}
       \/ list_of_procedure_codes_on_encounter = <<>>
    THEN {Ret([TotalChargeAmount |-> "Error",
               SimpleError |-> "Missing required params for GetCharges (EncID, PatientID, PracName, DOS, at least one ProcCode)."], w)}
    ELSE IF format_datetime_for_api_phase3(dos_filter_str) = None
    THEN {Ret([TotalChargeAmount |-> "Error",
               SimpleError |-> "Invalid DOS for GetCharges filter."], w)}
    ELSE { Ret(ChargesOutcome(ans, target_patient_id_str, target_encounter_id_str),
               Call(w, ctx, "get_total_charge_amount_for_encounter_phase3", "GetCharges",
                    <<target_encounter_id_str>>,
                    <<practice_name_filter_str, dos_filter_str,
                      list_of_procedure_codes_on_encounter[1]>>,
                    ans, Answer(ChargesOf(target_encounter_id_str, target_patient_id_str))))
           : ans \in GetChargesAnswers(w, target_encounter_id_str, target_patient_id_str) }


-----------------------------------------------------------------------------
(* Text: the string operations parse_tebra_xml_error_phase3 uses, on the   *)
(* characters of the string.  Positions start at 1; a search that finds    *)
(* nothing gives 0.                                                        *)

\* the value of v under a name: F of v, with v worked out once
Bind(v, F(_)) == CHOOSE r \in {F(x) : x \in {v}} : TRUE

\* s[i-1:j] of Python
Slice(s, i, j) == IF i > j THEN "" ELSE SubSeq(s, i, j)
CharAt(s, i) == SubSeq(s, i, i)

\* s.startswith(pat, i-1)
StartsAt(s, pat, i) ==
    i >= 1 /\ i + Len(pat) - 1 <= Len(s) /\ SubSeq(s, i, i + Len(pat) - 1) = pat

\* the first position from i where a test holds, one past the end if none
FirstWhere(s, i, Test(_)) ==
    CHOOSE j \in i..(Len(s) + 1) :
        /\ j = Len(s) + 1 \/ Test(j)
        /\ \A k \in i..(j - 1) : ~Test(k)

\* s.find(pat, i-1) + 1
Find(s, pat, i) ==
    LET hit(j) == StartsAt(s, pat, j)
    IN IF i > Len(s) + 1 THEN 0
       ELSE Bind(FirstWhere(s, i, hit), LAMBDA j : IF j = Len(s) + 1 THEN 0 ELSE j)

\* pat in s
Has(s, pat) == Bind(s, LAMBDA t : Find(t, pat, 1) # 0)

Whitespace == {" ", "\t", "\n", "\r"}

\* the first and the last position of s that is not white space
FirstInk(s) ==
    LET ink(j) == CharAt(s, j) \notin Whitespace IN FirstWhere(s, 1, ink)
LastInk(s) ==
    CHOOSE j \in 0..Len(s) :
        /\ j = 0 \/ CharAt(s, j) \notin Whitespace
        /\ \A k \in (j + 1)..Len(s) : CharAt(s, k) \in Whitespace

\* s.strip()
PyStrip(s) == Bind(s, LAMBDA t : Slice(t, FirstInk(t), LastInk(t)))

Digits == {"0", "1", "2", "3", "4", "5", "6", "7", "8", "9"}

\* the position after the digits \d* that start at i
DigitsEnd(s, i) ==
    LET other(j) == CharAt(s, j) \notin Digits
    IN IF i > Len(s) THEN i ELSE FirstWhere(s, i, other)

\* the position of the first < from i, one past the end if there is none:
\* where [^<]* stops
NextTagStart(s, i) ==
    Bind(Find(s, "<", i), LAMBDA j : IF j = 0 THEN Len(s) + 1 ELSE j)

NoMatch == [at |-> 0]

\* a match of <err id="(\d+)"> at position i: the id and where the text of
\* the element begins
ErrOpenAt(s, i) ==
    Bind(DigitsEnd(s, i + 9),
         LAMBDA e : IF StartsAt(s, "<err id=\"", i) /\ e > i + 9 /\ StartsAt(s, "\">", e)
                    THEN [at |-> i, id |-> Slice(s, i + 9, e - 1), body |-> e + 2]
                    ELSE NoMatch)

\* the first match of <err id="(\d+)"> from position i
RECURSIVE FindErrOpen(_, _)
FindErrOpen(s, i) ==
    LET at(j) ==
            IF j = 0 THEN NoMatch
            ELSE Bind(ErrOpenAt(s, j),
                      LAMBDA m : IF m.at # 0 THEN m ELSE FindErrOpen(s, j + 1))
    IN Bind(Find(s, "<err id=\"", i), at)

\* src/src/routes/user.py:860-865
\* re.search(<tag>.*?<err id="(\d+)">(.*?)</err>.*?</tag>, DOTALL) and its
\* message, as a list of no or one message
ElementError(s, tag) ==
    LET closed(m, c) ==
            Bind(IF c = 0 THEN 0 ELSE Find(s, "</" \o tag \o ">", c + 6),
                 LAMBDA z : IF z = 0 THEN <<>>
                            ELSE <<tag \o " Err(ID:" \o m.id \o "): "
                                     \o PyStrip(Slice(s, m.body, c - 1))>>)
        erred(m) ==
            Bind(IF m.at = 0 THEN 0 ELSE Find(s, "</err>", m.body),
                 LAMBDA c : closed(m, c))
        opened(p) ==
            Bind(IF p = 0 THEN NoMatch ELSE FindErrOpen(s, p + Len(tag) + 2), erred)
    IN Bind(Find(s, "<" \o tag \o ">", 1), opened)

\* src/src/routes/user.py:867 re.findall(<ServiceLine>(.*?)</ServiceLine>, DOTALL)
\* from position i
RECURSIVE ServiceLineItems(_, _)
ServiceLineItems(s, i) ==
    LET closed(p, q) ==
            IF q = 0 THEN <<>>
            ELSE <<Slice(s, p + 13, q - 1)>> \o ServiceLineItems(s, q + 14)
        opened(p) ==
            Bind(IF p = 0 THEN 0 ELSE Find(s, "</ServiceLine>", p + 13),
                 LAMBDA q : closed(p, q))
    IN Bind(Find(s, "<ServiceLine>", i), opened)

\* src/src/routes/user.py:870-872
\* re.search(<ProcedureCode>([^<]+)</ProcedureCode>) from position i, N/A
\* without a match
RECURSIVE ProcCodeOf(_, _)
ProcCodeOf(s, i) ==
    LET opened(p) ==
            IF p = 0 THEN "N/A"
            ELSE Bind(NextTagStart(s, p + 15),
                      LAMBDA e : IF e > p + 15 /\ StartsAt(s, "</ProcedureCode>", e)
                                 THEN Slice(s, p + 15, e - 1)
                                 ELSE ProcCodeOf(s, p + 1))
    IN Bind(Find(s, "<ProcedureCode>", i), opened)

\* a match at position i of open(\d)>([^<]+?)<err id="\d+">([^<]+)</err>,
\* the pattern of a diagnosis code or a procedure modifier with an error
FieldErrorAt(s, i, open) ==
    LET n == i + Len(open)
        b == n + 2
        texted(e, m) ==
            Bind(NextTagStart(s, m.body),
                 LAMBDA t : IF /\ StartsAt(s, open, i)
                               /\ n <= Len(s) /\ CharAt(s, n) \in Digits
                               /\ StartsAt(s, ">", n + 1)
                               /\ e > b
                               /\ t > m.body
                               /\ StartsAt(s, "</err>", t)
                            THEN [at |-> i, num |-> CharAt(s, n), code |-> Slice(s, b, e - 1),
                                  msg |-> Slice(s, m.body, t - 1), end |-> t + 6]
                            ELSE NoMatch)
        coded(e) ==
            Bind(ErrOpenAt(s, e), LAMBDA m : IF m.at = 0 THEN NoMatch ELSE texted(e, m))
    IN Bind(NextTagStart(s, b), coded)

\* src/src/routes/user.py:873-874 re.finditer of that pattern from position i
RECURSIVE FieldErrors(_, _, _)
FieldErrors(s, i, open) ==
    LET hit(p) ==
            IF p = 0 THEN <<>>
            ELSE Bind(FieldErrorAt(s, p, open),
                      LAMBDA d : IF d.at # 0 THEN <<d>> \o FieldErrors(s, d.end, open)
                                 ELSE FieldErrors(s, p + 1, open))
    IN Bind(Find(s, open, i), hit)

\* src/src/routes/user.py:876 re.finditer(<err id="(\d+)">(.*?)</err>) from
\* position i: the texts of the elements; the text has no line break
RECURSIVE GeneralErrors(_, _)
GeneralErrors(s, i) ==
    LET closed(m, c) ==
            IF c = 0 THEN <<>>
            ELSE Bind(Slice(s, m.body, c - 1),
                      LAMBDA text : IF Has(text, "\n") THEN GeneralErrors(s, m.at + 1)
                                    ELSE <<text>> \o GeneralErrors(s, c + 6))
        opened(m) ==
            IF m.at = 0 THEN <<>>
            ELSE Bind(Find(s, "</err>", m.body), LAMBDA c : closed(m, c))
    IN Bind(FindErrOpen(s, i), opened)

\* err_msg.split(',')[0]
BeforeComma(t) ==
    LET cut(u, c) == IF c = 0 THEN u ELSE Slice(u, 1, c - 1)
        whole(u) == Bind(Find(u, ",", 1), LAMBDA c : cut(u, c))
    IN Bind(t, whole)

\* a message that keeps the whole text of the service's message
DiagnosisMessageWhole(tag, d) ==
    tag \o "Diag" \o d.num \o " ('" \o d.code \o "') - " \o PyStrip(d.msg) \o "."

\* src/src/routes/user.py:873 the message of a diagnosis code with an error
DiagnosisMessage(tag, d) ==
    tag \o "Diag" \o d.num \o " ('" \o d.code \o "') - " \o PyStrip(BeforeComma(d.msg)) \o "."

\* src/src/routes/user.py:874 the message of a modifier with an error
ModifierMessage(tag, d) ==
    tag \o "Mod" \o d.num \o " ('" \o d.code \o "') - " \o PyStrip(BeforeComma(d.msg))
        \o (IF Has(d.code, ".0") THEN " (No .0)" ELSE "") \o "."

\* src/src/routes/user.py:869-876: the messages of service line sl_counter
ServiceLineErrors(sl_xml_item, sl_counter) ==
    LET messages(tag, diags, mods, generals) ==
            [k \in 1..Len(diags) |-> DiagnosisMessage(tag, diags[k])]
              \o [k \in 1..Len(mods) |-> ModifierMessage(tag, mods[k])]
              \o [k \in 1..Len(generals) |-> tag \o PyStrip(generals[k]) \o "."]
        fields(tag, diags, mods) ==
            Bind(IF diags = <<>> /\ mods = <<>> THEN GeneralErrors(sl_xml_item, 1) ELSE <<>>,
                 LAMBDA generals : messages(tag, diags, mods, generals))
        diagnosed(tag, diags) ==
            Bind(FieldErrors(sl_xml_item, 1, "<ProcedureModifier"),
                 LAMBDA mods : fields(tag, diags, mods))
        tagged(tag) ==
            Bind(FieldErrors(sl_xml_item, 1, "<DiagnosisCode"),
                 LAMBDA diags : diagnosed(tag, diags))
    IN Bind("L" \o ToString(sl_counter) \o "(Proc " \o ProcCodeOf(sl_xml_item, 1) \o "): ",
            tagged)

\* the messages of the service lines from the n-th on
RECURSIVE AllServiceLineErrors(_, _)
AllServiceLineErrors(items, n) ==
    IF n > Len(items) THEN <<>>
    ELSE Bind(items[n], LAMBDA sl_xml_item : ServiceLineErrors(sl_xml_item, n))
           \o AllServiceLineErrors(items, n + 1)

\* the first </err> from position i that no </ServiceLine> follows
RECURSIVE CloseOutsideLines(_, _)
CloseOutsideLines(s, i) ==
    LET closed(c) ==
            IF c = 0 THEN 0
            ELSE IF Find(s, "</ServiceLine>", c + 6) = 0 THEN c
            ELSE CloseOutsideLines(s, c + 1)
    IN Bind(Find(s, "</err>", i), closed)

\* src/src/routes/user.py:878-879
\* re.search(<ServiceLines>.*?<err id="(\d+)">(.*?)</err>(?!.*</ServiceLine>), DOTALL)
ServiceLinesOverallError(s) ==
    LET closed(m, c) ==
            IF c = 0 THEN <<>>
            ELSE <<"ServiceLines Overall Err(ID:" \o m.id \o "): "
                     \o PyStrip(Slice(s, m.body, c - 1)) \o ".">>
        erred(m) ==
            Bind(IF m.at = 0 THEN 0 ELSE CloseOutsideLines(s, m.body),
                 LAMBDA c : closed(m, c))
        opened(p) == Bind(IF p = 0 THEN NoMatch ELSE FindErrOpen(s, p + 14), erred)
    IN Bind(Find(s, "<ServiceLines>", 1), opened)

\* src/src/routes/user.py:881-884
\* re.search(<Encounter[^>]*>.*?<err id="(\d+)">(.*?)</err>, DOTALL), else
\* the message for an <Encounter without a match
EncounterLevelError(s) ==
    LET closed(p, m, c) ==
            IF c # 0
            THEN <<"Encounter Level Err(ID:" \o m.id \o "): "
                     \o PyStrip(Slice(s, m.body, c - 1)) \o ".">>
            ELSE IF p # 0 THEN <<"Enc creation failed (unparsed XML error).">>
            ELSE <<>>
        erred(p, m) ==
            Bind(IF m.at = 0 THEN 0 ELSE Find(s, "</err>", m.body),
                 LAMBDA c : closed(p, m, c))
        ended(p, q) ==
            Bind(IF q = 0 THEN NoMatch ELSE FindErrOpen(s, q + 1), LAMBDA m : erred(p, m))
        opened(p) ==
            Bind(IF p = 0 THEN 0 ELSE Find(s, ">", p + 10), LAMBDA q : ended(p, q))
    IN Bind(Find(s, "<Encounter", 1), opened)

\* src/src/routes/user.py:887 the messages without repetitions, in order
RECURSIVE UniqueErrors(_, _)
UniqueErrors(errors, n) ==
    IF n = 0 THEN <<>>
    ELSE Bind(UniqueErrors(errors, n - 1),
              LAMBDA before : IF \E k \in 1..Len(before) : before[k] = errors[n] THEN before
                              ELSE Append(before, errors[n]))

\* "; ".join(errors)
RECURSIVE JoinErrors(_)
JoinErrors(errors) ==
    Bind(errors, LAMBDA e : IF Len(e) = 1 THEN e[1]
                            ELSE e[1] \o "; " \o JoinErrors(Tail(e)))

\* the length the text of a message without a recognized error is cut to
MaxUnparsedLen == 250

\* src/src/routes/user.py:849-889 parse_tebra_xml_error_phase3
parse_tebra_xml_error_phase3(xml_string) ==
    LET simplified(xml, simplified_errors) ==
            IF simplified_errors = <<>>
            THEN IF Len(xml) > MaxUnparsedLen
                 THEN Slice(PyStrip(xml), 1, MaxUnparsedLen) \o "..."
                 ELSE PyStrip(xml)
            ELSE JoinErrors(UniqueErrors(simplified_errors, Len(simplified_errors)))
        collected(xml, found) ==
            Bind(IF found # <<>> THEN found ELSE EncounterLevelError(xml),
                 LAMBDA simplified_errors : simplified(xml, simplified_errors))
        lines(xml) ==
            Bind(ServiceLineItems(xml, 1), LAMBDA items : AllServiceLineErrors(items, 1))
        structured(xml) ==
            Bind(ElementError(xml, "ReferringProvider")
                   \o ElementError(xml, "RenderingProvider")
                   \o ElementError(xml, "ServiceLocation")
                   \o lines(xml)
                   \o ServiceLinesOverallError(xml),
                 LAMBDA found : collected(xml, found))
    IN IF xml_string \in {None, ""} THEN "Unknown error."
       ELSE IF ~(Has(xml_string, "<Encounter") \/ Has(xml_string, "<err ")
                   \/ Has(xml_string, "<Error>"))
       THEN IF PyStrip(xml_string) # "" THEN PyStrip(xml_string)
            ELSE "Encounter error (non-XML)."
       ELSE Bind(IF StartsAt(xml_string, "API Error: ", 1)
                 THEN PyStrip(Slice(xml_string, 12, Len(xml_string)))
                 ELSE xml_string,
                 structured)

-----------------------------------------------------------------------------
(* CreateEncounter *)

RECURSIVE Repeat(_, _)
Repeat(s, n) == IF n = 0 THEN "" ELSE s \o Repeat(s, n - 1)

\* a text of 300 characters without a tag
LongText == Repeat("no detail ", 30)

\* the message of the example of the error simplifier
DiagnosisErrorXml ==
    "<ServiceLine><ProcedureCode>99213</ProcedureCode><DiagnosisCode1>Z00<err id=\"5\">Invalid code, see manual</err></DiagnosisCode1></ServiceLine>"

\* ErrorResponse.ErrorMessage of a CreateEncounter response: no message, a
\* plain text, short or long, and the request echoed with err elements
EncounterErrorMessages ==
    { RemoteText, "", " ", " denied ", LongText, "<err >" \o LongText,
      DiagnosisErrorXml,
      "<Encounter><Note>not accepted</Note></Encounter>",
      "<Encounter><err id=\"9\"> Patient inactive </err></Encounter>",
      "API Error: <Encounter><ReferringProvider>Dr Who<err id=\"3\">Unknown provider</err></ReferringProvider></Encounter>",
      "<Encounter><ServiceLines><ServiceLine><ProcedureCode>99213</ProcedureCode></ServiceLine><ServiceLine><ProcedureCode>99214</ProcedureCode><ProcedureModifier1>25.0<err id=\"7\">Invalid modifier, use 25</err></ProcedureModifier1></ServiceLine></ServiceLines></Encounter>",
      "<Encounter><ServiceLines><ServiceLine><DiagnosisCode1>Z00<err id=\"5\">Invalid code, see manual</err></DiagnosisCode1><DiagnosisCode2>Z00<err id=\"5\">Invalid code, see list</err></DiagnosisCode2></ServiceLine><ServiceLine><Units>0<err id=\"8\">Units missing</err></Units></ServiceLine><err id=\"2\">Lines rejected</err></ServiceLines></Encounter>" }

\* src/src/routes/user.py:1219 the simplified message of each of them
SimplifiedMessage ==
    [m \in EncounterErrorMessages |-> parse_tebra_xml_error_phase3(m)]

\* a response with ErrorResponse.IsError and its ErrorMessage
EncounterErrorAnswer(data, message) ==
    [fault |-> FALSE, isError |-> TRUE, unauthorized |-> FALSE, data |-> data,
     ErrorMessage |-> message]

\* the encounter IDs the service hands out, and its CreateEncounter answers:
\* data is the EncounterID of the response, 0 when the response carries none
NewEncounterID(ctx) == 1000 + ctx.unit
CreateEncounterAnswers(w, ctx) ==
    Answers(w, Answer(NewEncounterID(ctx)),
            {FaultAnswer(0), AuthAnswer(0), Answer(0), AuthAnswer(NewEncounterID(ctx)),
             EncounterErrorAnswer(NewEncounterID(ctx), RemoteText)}
              \cup {EncounterErrorAnswer(0, m) : m \in EncounterErrorMessages})

EncResult(id, amount, status, message) ==
    [EncounterID |-> id, ChargeAmount |-> amount, ChargeStatus |-> status,
     SimpleMessage |-> message]

\* src/src/routes/user.py:1071 the result of a group whose encounter was not
\* created
EncFail(message) == EncResult(None, "Error", "Error", message)

\* a result that takes the encounter back when a follow-up fetch failed
EncounterCreatedOutcomeRetracting(created_encounter_id, status_fetch_result, charge_fetch_result) ==
    IF status_fetch_result.RawEncounterStatusCode = None
    THEN EncFail(Msg("Enc Error: status of encounter %s not fetched.", created_encounter_id))
    ELSE IF charge_fetch_result.TotalChargeAmount \in {None, "Error"}
    THEN EncFail(Msg("Enc Error: charges of encounter %s not fetched.", created_encounter_id))
    ELSE EncResult(created_encounter_id, charge_fetch_result.TotalChargeAmount,
                   map_encounter_status_code(status_fetch_result.RawEncounterStatusCode),
                   Msg("Encounter #%s Created.", created_encounter_id))

\* src/src/routes/user.py:1223-1249: the result of a created encounter from
\* the status fetch and the charge fetch
EncounterCreatedOutcome(created_encounter_id, status_fetch_result, charge_fetch_result) ==
    LET status_ok == status_fetch_result.RawEncounterStatusCode # None
        charge_ok == charge_fetch_result.TotalChargeAmount \notin {None, "Error"}
        status_warning == IF status_ok THEN <<>>
                          ELSE <<" (Status Warn: " \o status_fetch_result.SimpleError \o ")">>
        charge_warning == IF charge_ok THEN <<>>
                          ELSE <<" (Charge Warn: " \o charge_fetch_result.SimpleError \o ")">>
    IN EncResult(created_encounter_id,
                 IF charge_ok THEN charge_fetch_result.TotalChargeAmount ELSE "Charge Fetch Error",
                 IF status_ok THEN map_encounter_status_code(status_fetch_result.RawEncounterStatusCode)
                 ELSE "Status Fetch Error",
                 [Msg("Encounter #%s Created.", created_encounter_id)
                    EXCEPT !.sfx = status_warning \o charge_warning])

\* src/src/routes/user.py:1230-1249: status fetch, then charge fetch
FetchCreatedDetails(created_encounter_id, group_key, practice_id, proc_codes, w, ctx) ==
    UNION { { Ret(EncounterCreatedOutcome(created_encounter_id, s.ret, c.ret), c.w)
              : c \in get_total_charge_amount_for_encounter_phase3(
                          created_encounter_id, group_key[1], group_key[3], group_key[2],
                          proc_codes, s.w, ctx) }
            : s \in get_encounter_details_phase3(created_encounter_id, practice_id, w, ctx) }

\* src/src/routes/user.py:1217-1222: does the CreateEncounter response carry
\* a created encounter
EncounterResponseCreated(ans) ==
    ~ans.fault /\ ~ans.isError /\ ~ans.unauthorized /\ ans.data > 0

\* src/src/routes/user.py:1217-1256: the message of a CreateEncounter
\* response that created nothing
EncounterFailureMessage(ans) ==
    IF ans.fault THEN Msg("Enc SOAP Fault: %s...", RemoteText)
    ELSE IF ans.isError
    THEN Msg("Enc API Err: %s", SimplifiedMessage[ans.ErrorMessage])
    ELSE IF ans.unauthorized THEN Msg("Enc API Auth Err: %s", RemoteText)
    ELSE Msg("Enc creation unclear (EncID -1 or missing).", "")

\* src/src/routes/user.py:1209-1256: CreateEncounter and what follows it
SubmitEncounter(group_key, encounter_args, practice_id, proc_codes, w, ctx) ==
    UNION { LET w1 == Call(w, ctx, "_create_encounter_for_group_and_get_details",
                           "CreateEncounter", group_key, encounter_args, ans,
                           Answer(NewEncounterID(ctx)))
            IN IF EncounterResponseCreated(ans)
               THEN FetchCreatedDetails(ToString(ans.data), group_key, practice_id,
                                        proc_codes, w1, ctx)
               ELSE {Ret(EncFail(EncounterFailureMessage(ans)), w1)}
            : ans \in CreateEncounterAnswers(w, ctx) }

\* a group that ends when its scheduling provider is not resolved
WithSchedulingProviderRequired(group_key, first_row_data, encounter_args, practice_id, proc_codes, w, ctx) ==
    LET sp_name == Strip(PyStr(first_row_data.SchedulingProvider))
    IN IF sp_name # ""
       THEN UNION { IF r.ret = None
                    THEN {Ret(EncFail(Msg("Enc Error: Scheduling Provider ID for '%s' not found.",
                                          sp_name)), r.w)}
                    ELSE SubmitEncounter(group_key,
                                         [encounter_args EXCEPT !.SchedulingProvider = r.ret],
                                         practice_id, proc_codes, r.w, ctx)
                    : r \in get_provider_id_by_name_phase3(sp_name, practice_id, w, ctx) }
       ELSE SubmitEncounter(group_key, encounter_args, practice_id, proc_codes, w, ctx)

\* src/src/routes/user.py:1205-1207: the batch number of the encounter, None
\* for a request without one
BatchNumberOf(first_row_data) ==
    LET ce_batch_num_str == Strip(PyStr(first_row_data.CEBatch))
    IN IF ce_batch_num_str # "" THEN ce_batch_num_str ELSE None

\* src/src/routes/user.py:1198-1207: the optional scheduling provider and the
\* batch number of the first row, then the submission
WithSchedulingProvider(group_key, first_row_data, encounter_args, practice_id, proc_codes, w, ctx) ==
    LET sp_name == Strip(PyStr(first_row_data.SchedulingProvider))
        batched == [encounter_args EXCEPT !.BatchNumber = BatchNumberOf(first_row_data)]
    IN IF sp_name # ""
       THEN UNION { SubmitEncounter(group_key,
                                    [batched EXCEPT !.SchedulingProvider = r.ret],
                                    practice_id, proc_codes, r.w, ctx)
                    : r \in get_provider_id_by_name_phase3(sp_name, practice_id, w, ctx) }
       ELSE SubmitEncounter(group_key, batched, practice_id, proc_codes, w, ctx)

\* the service line of the first row only
ServiceLinesOfFirstRow(group_df_rows) ==
    <<create_service_line_payload_phase3(group_df_rows[1].row)>>

\* the service lines of the rows of a group, NoLine for a row without one
ServiceLinesOf(group_df_rows) ==
    [i \in 1..Len(group_df_rows) |-> create_service_line_payload_phase3(group_df_rows[i].row)]

\* procedure_codes_for_this_encounter: the distinct codes in row order
RECURSIVE DistinctCodes(_)
DistinctCodes(lines) ==
    IF lines = <<>> THEN <<>>
    ELSE LET before == DistinctCodes(SubSeq(lines, 1, Len(lines) - 1))
             code == lines[Len(lines)].ProcedureCode
         IN IF \E i \in 1..Len(before) : before[i] = code THEN before
            ELSE Append(before, code)

\* src/src/routes/user.py:1156-1172: one service line per row; the first row
\* without one ends the group
WithServiceLines(group_key, group_df_rows, encounter_args, practice_id, w, ctx) ==
    LET lines == ServiceLinesOf(group_df_rows)
        bad == {i \in 1..Len(lines) : lines[i] = NoLine}
        first_bad == CHOOSE i \in bad : \A j \in bad : i <= j
    IN IF bad # {}
       THEN {Ret(EncFail(Msg("Enc Error: Failed service line from Excel row %s.",
                             ToString(group_df_rows[first_bad].n + 1))), w)}
       ELSE WithSchedulingProvider(group_key, group_df_rows[1].row,
                                   [encounter_args EXCEPT !.ServiceLines = lines],
                                   practice_id, DistinctCodes(lines), w, ctx)

\* src/src/routes/user.py:1116-1131: the referring provider of the request:
\* by NPI, else by provider ID, else none
ReferringPayload(ref_prov_details) ==
    IF ref_prov_details.NPI # None THEN [NPI |-> ref_prov_details.NPI, ProviderID |-> None]
    ELSE IF ref_prov_details.ProviderID # None
    THEN [NPI |-> None, ProviderID |-> ref_prov_details.ProviderID]
    ELSE NoDetails

\* src/src/routes/user.py:1105-1133: the optional referring provider of the
\* first row, then the service lines
WithReferringProvider(group_key, group_df_rows, encounter_args, practice_id, w, ctx) ==
    LET name == Strip(PyStr(group_df_rows[1].row.ReferringProvider))
    IN IF name # "" /\ Lower(name) # "nan"
       THEN UNION { WithServiceLines(group_key, group_df_rows,
                                     [encounter_args EXCEPT !.ReferringProvider = ReferringPayload(r.ret)],
                                     practice_id, r.w, ctx)
                    : r \in get_referring_provider_details_for_encounter(name, practice_id, w, ctx) }
       ELSE WithServiceLines(group_key, group_df_rows, encounter_args, practice_id, w, ctx)

\* src/src/routes/user.py:787 known_pos_codes_with_names; the apostrophe of
\* the two telehealth names is typographic in the source
known_pos_codes_with_names ==
    [c \in {"02", "10", "11", "12", "21", "22", "23", "24"} |->
        CASE c = "02" -> "Telehealth Provided Other than in Patient's Home"
          [] c = "10" -> "Telehealth Provided in Patient's Home"
          [] c = "11" -> "Office"
          [] c = "12" -> "Home"
          [] c = "21" -> "Inpatient Hospital"
          [] c = "22" -> "Outpatient Hospital"
          [] c = "23" -> "Emergency Room - Hospital"
          [] c = "24" -> "Ambulatory Surgical Center"]

\* src/src/routes/user.py:490 POS_CODE_MAP_PHASE3, the three entries in use
POS_CODE_MAP_PHASE3 ==
    [k \in {"OFFICE", "DEFAULT_IN_OFFICE", "DEFAULT_TELEHEALTH"} |->
        IF k = "DEFAULT_TELEHEALTH"
        THEN [code |-> "10", name |-> "Telehealth Provided in Patient's Home"]
        ELSE [code |-> "11", name |-> "Office"]]

\* `word in mode` on the lower-cased encounter modes of the model
ModeHolds(mode, word) ==
    CASE mode = "in office" -> word \in {"in office", "office"}
      [] mode = "office visit" -> word \in {"office"}
      [] mode = "inoffice" -> word \in {"office", "inoffice"}
      [] mode = "telehealth" -> word \in {"telehealth"}
      [] mode = "tele health" -> word \in {"tele health"}
      [] mode = "telehealth in office" -> word \in {"telehealth", "in office", "office"}
      [] OTHER -> FALSE

PosPayload(code, name) == [PlaceOfServiceCode |-> code, PlaceOfServiceName |-> name]

\* a place of service that takes every code of the sheet as it is written
PlaceOfServiceAsWritten(excel_pos_code, excel_encounter_mode) ==
    LET pos_code_input_str == IF IsNa(excel_pos_code) THEN "" ELSE Strip(PyStr(excel_pos_code))
    IN IF pos_code_input_str # ""
       THEN PosPayload(pos_code_input_str,
                       IF pos_code_input_str \in DOMAIN known_pos_codes_with_names
                       THEN known_pos_codes_with_names[pos_code_input_str] ELSE "None")
       ELSE PosPayload("11", "Office")

\* src/src/routes/user.py:781 create_place_of_service_payload_phase3
create_place_of_service_payload_phase3(excel_pos_code, excel_encounter_mode) ==
    LET pos_code_input_str == IF IsNa(excel_pos_code) THEN "" ELSE Strip(PyStr(excel_pos_code))
        encounter_mode_input_norm ==
            IF IsNa(excel_encounter_mode) THEN "" ELSE Lower(Strip(PyStr(excel_encounter_mode)))
        is_telehealth_mode == \/ ModeHolds(encounter_mode_input_norm, "telehealth")
                              \/ ModeHolds(encounter_mode_input_norm, "tele health")
        is_in_office_mode == \/ ModeHolds(encounter_mode_input_norm, "in office")
                             \/ ModeHolds(encounter_mode_input_norm, "office")
                             \/ ModeHolds(encounter_mode_input_norm, "inoffice")
    IN IF pos_code_input_str \in DOMAIN known_pos_codes_with_names
       THEN PosPayload(pos_code_input_str, known_pos_codes_with_names[pos_code_input_str])
       ELSE IF is_telehealth_mode
       THEN PosPayload(POS_CODE_MAP_PHASE3["DEFAULT_TELEHEALTH"].code,
                       POS_CODE_MAP_PHASE3["DEFAULT_TELEHEALTH"].name)
       ELSE IF is_in_office_mode
       THEN PosPayload(POS_CODE_MAP_PHASE3["DEFAULT_IN_OFFICE"].code,
                       POS_CODE_MAP_PHASE3["DEFAULT_IN_OFFICE"].name)
       ELSE PosPayload("11", POS_CODE_MAP_PHASE3["OFFICE"].name)

\* no hospitalization block in the request
NoHospitalization == [StartDate |-> None, EndDate |-> None]

\* a hospitalization block that is sent with the one date the sheet gives
HospitalizationWithOneDate(first_row_data) ==
    LET admit_date_str == Strip(PyStr(first_row_data.AdmitDate))
        discharge_date_str == Strip(PyStr(first_row_data.DischargeDate))
        fmt(d) == IF d # "" /\ Lower(d) # "nan" /\ format_datetime_for_api_phase3(d) # None
                  THEN format_datetime_for_api_phase3(d) ELSE None
    IN [StartDate |-> fmt(admit_date_str), EndDate |-> fmt(discharge_date_str)]

\* src/src/routes/user.py:1135-1153: the hospitalization block of the first
\* row of the group, NoHospitalization when none is sent
HospitalizationOf(first_row_data) ==
    LET admit_date_str == Strip(PyStr(first_row_data.AdmitDate))
        discharge_date_str == Strip(PyStr(first_row_data.DischargeDate))
        fmt_admit == format_datetime_for_api_phase3(admit_date_str)
        fmt_discharge == format_datetime_for_api_phase3(discharge_date_str)
    IN IF /\ admit_date_str # "" /\ discharge_date_str # ""
          /\ Lower(admit_date_str) # "nan" /\ Lower(discharge_date_str) # "nan"
          /\ fmt_admit # None /\ fmt_discharge # None
       THEN [StartDate |-> fmt_admit, EndDate |-> fmt_discharge]
       ELSE NoHospitalization

\* src/src/routes/user.py:1092-1103: rendering provider and day of service
WithRenderingProvider(group_key, group_df_rows, service_location_id_str, case_id_str, practice_id, w, ctx) ==
    LET rp_name == Strip(PyStr(group_df_rows[1].row.RenderingProvider))
        dos_api == format_datetime_for_api_phase3(group_key[2])
    IN IF rp_name = ""
       THEN {Ret(EncFail(Msg("Enc Error: Rendering Provider name missing.", "")), w)}
       ELSE UNION {
              IF r.ret = None
              THEN {Ret(EncFail(Msg("Enc Error: Rendering Provider ID for '%s' not found.", rp_name)), r.w)}
              ELSE IF dos_api = None
              THEN {Ret(EncFail(Msg("Enc Error: Invalid DOS '%s'.", group_key[2])), r.w)}
              ELSE WithReferringProvider(group_key, group_df_rows,
                       [Patient |-> group_key[1], Practice |-> practice_id,
                        ServiceLocation |-> service_location_id_str, Case |-> case_id_str,
                        RenderingProvider |-> r.ret, ServiceStartDate |-> dos_api,
                        PlaceOfService |-> create_place_of_service_payload_phase3(
                                              group_df_rows[1].row.POS,
                                              group_df_rows[1].row.EncounterMode),
                        Hospitalization |-> HospitalizationOf(group_df_rows[1].row),
                        ReferringProvider |-> NoDetails, SchedulingProvider |-> None,
                        BatchNumber |-> None, ServiceLines |-> <<>>],
                       practice_id, r.w, ctx)
              : r \in get_provider_id_by_name_phase3(rp_name, practice_id, w, ctx) }

\* WithCase without its test of the case: the group goes on with no case
WithCaseUnchecked(group_key, group_df_rows, service_location_id_str, practice_id, w, ctx) ==
    UNION { WithRenderingProvider(group_key, group_df_rows, service_location_id_str,
                                  r.ret, practice_id, r.w, ctx)
            : r \in get_case_id_for_patient_phase3(ParseInt(Strip(group_key[1])).v, w, ctx) }

\* src/src/routes/user.py:1089-1090: the case of the patient
WithCase(group_key, group_df_rows, service_location_id_str, practice_id, w, ctx) ==
    IF ParseInt(Strip(group_key[1])).k # "num"
    THEN {Ret(EncFail(Msg("Enc System Error: %s.", "ValueError")), w)}
    ELSE UNION {
           IF r.ret = None
           THEN {Ret(EncFail(Msg("Enc Error: Case ID not found for Pt %s.", group_key[1])), r.w)}
           ELSE WithRenderingProvider(group_key, group_df_rows, service_location_id_str,
                                      r.ret, practice_id, r.w, ctx)
           : r \in get_case_id_for_patient_phase3(ParseInt(Strip(group_key[1])).v, w, ctx) }

\* the rows of a group from the last to the first
LastRowFirst(group_df_rows) ==
    [j \in 1..Len(group_df_rows) |-> group_df_rows[Len(group_df_rows) + 1 - j]]

\* an encounter that takes its fields from the last row of the group
create_encounter_by_last_row(group_key, group_df_rows, practice_id_for_encounter_payload_str, w, ctx) ==
    IF group_df_rows = <<>>
    THEN {Ret(EncFail(Msg("Enc Error: No rows in group.", "")), w)}
    ELSE IF practice_id_for_encounter_payload_str \in {None, ""}
    THEN {Ret(EncFail(Msg("Enc Error: Missing Tebra Practice ID.", "")), w)}
    ELSE UNION {
           IF r.ret = None
           THEN {Ret(EncFail(Msg("Enc Error: SL '%s' not found for TebraPracID %s.", group_key[3])), r.w)}
           ELSE WithCase(group_key, LastRowFirst(group_df_rows), r.ret,
                         practice_id_for_encounter_payload_str, r.w, ctx)
           : r \in get_service_location_id_by_name(group_key[3],
                       practice_id_for_encounter_payload_str, w, ctx) }

\* src/src/routes/user.py:1054 _create_encounter_for_group_and_get_details
create_encounter_for_group_and_get_details(group_key, group_df_rows, practice_id_for_encounter_payload_str, w, ctx) ==
    IF group_df_rows = <<>>
    THEN {Ret(EncFail(Msg("Enc Error: No rows in group.", "")), w)}
    ELSE IF practice_id_for_encounter_payload_str \in {None, ""}
    THEN {Ret(EncFail(Msg("Enc Error: Missing Tebra Practice ID.", "")), w)}
    ELSE UNION {
           IF r.ret = None
           THEN {Ret(EncFail(Msg("Enc Error: SL '%s' not found for TebraPracID %s.", group_key[3])), r.w)}
           ELSE WithCase(group_key, group_df_rows, r.ret,
                         practice_id_for_encounter_payload_str, r.w, ctx)
           : r \in get_service_location_id_by_name(group_key[3],
                       practice_id_for_encounter_payload_str, w, ctx) }


-----------------------------------------------------------------------------
(* The batch *)

\* the place-of-service and encounter-mode cells of the rows, and the
\* admit and discharge dates of a sheet without these two optional columns
BasePlace == <<"11", "In Office">>
BaseStay == <<"", "">>
\* the cell of the encounter batch number: "" is the value read from the
\* optional column when the sheet does not have it
BaseBatch == ""

Row(pid, practice, dos, pay, prov, line) ==
    [PatientID |-> pid, Practice |-> practice, DOS |-> dos,
     PPBatch |-> pay[1], PatientPayment |-> pay[2], PaymentSource |-> pay[3],
     RenderingProvider |-> prov[1], SchedulingProvider |-> prov[2],
     ReferringProvider |-> prov[3],
     Procedures |-> line[1], Units |-> line[2], Diag1 |-> line[3],
     POS |-> BasePlace[1], EncounterMode |-> BasePlace[2],
     AdmitDate |-> BaseStay[1], DischargeDate |-> BaseStay[2],
     CEBatch |-> BaseBatch]

\* a row with other place-of-service, encounter-mode and hospitalization cells
WithVisit(row, place, stay) ==
    [row EXCEPT !.POS = place[1], !.EncounterMode = place[2],
                !.AdmitDate = stay[1], !.DischargeDate = stay[2]]

\* the cells of the three payment columns of a row: no payment, a payment,
\* and payments with one unusable cell
NoPay == <<NaN, NaN, NaN>>
PayChoices ==
    { <<"B1", "$1,234.56", "cc">>, <<"B1", "0", "CC">>, <<"B1", "-5", "CC">>,
      <<"B1", "abc", "CC">>, <<"B1", "25", "WIRE">>, <<NaN, "25", "CC">> }

\* rendering, scheduling and referring provider cells; "" is the value read
\* from an optional column that the sheet does not have
BaseProv == <<"Dr Who", "", NaN>>
ProvChoices ==
    { <<"Dr Who", "Dr Sched", NaN>>, <<"Dr Who", "", "Dr Ref">>, <<NaN, "", NaN>> }

\* procedure, units and first diagnosis cells: a valid line, and lines with
\* one unusable cell
BaseLine == <<"99213", "1", "Z00">>
LineChoices ==
    { <<NaN, "1", "Z00">>, <<" ", "1", "Z00">>, <<"99213", "0", "Z00">>,
      <<"99213", "abc", "Z00">>, <<"99213", NaN, "Z00">>, <<"99213", "1", NaN>> }

\* patient, practice and day-of-service cells
BaseKey == <<"100", "Clinic A", "2024-01-05">>
KeyChoices ==
    { <<"100", " clinic a ", "2024-01-05">>, <<"100", "Clinic B", "2024-01-05">>,
      <<"100", "Clinic A", "bad date">>, <<" ", "Clinic A", "2024-01-05">>,
      <<"100", "Clinic A", "2024-01-06">>, <<"200", "Clinic A", "2024-01-05">>,
      <<"100", "Clinic A", NaN>>, <<"100", "Clinic A", " ">>,
      <<NaN, "Clinic A", "2024-01-05">> }

\* the rows of the model: the base row with one group of cells changed, and
\* a payment for a practice the service does not know
RowChoices ==
    {Row(BaseKey[1], BaseKey[2], BaseKey[3], NoPay, BaseProv, BaseLine)}
    \cup {Row(k[1], k[2], k[3], NoPay, BaseProv, BaseLine) : k \in KeyChoices}
    \cup {Row(BaseKey[1], BaseKey[2], BaseKey[3], p, BaseProv, BaseLine) : p \in PayChoices}
    \cup {Row(BaseKey[1], BaseKey[2], BaseKey[3], NoPay, v, BaseLine) : v \in ProvChoices}
    \cup {Row(BaseKey[1], BaseKey[2], BaseKey[3], NoPay, BaseProv, l) : l \in LineChoices}
    \cup {Row("100", "Clinic B", "2024-01-05", <<"B1", "25", "CC">>, BaseProv, BaseLine)}

Batches == UNION {[1..n -> RowChoices] : n \in 1..MaxRows}

\* src/src/routes/user.py:1282-1292: the output columns before the run
InitialOutput ==
    [PatientName |-> NaN, DOB |-> NaN, Insurance |-> NaN, InsuranceID |-> NaN,
     InsuranceStatus |-> NaN, EncounterID |-> NaN, ChargeAmount |-> NaN,
     ChargeStatus |-> NaN, Error |-> <<>>, PaymentID |-> NaN]

\* the local variables of an invocation at its start, for a batch
StartFrame(b) ==
    [batch |-> b,
     outp |-> [i \in 1..Len(b) |-> InitialOutput],
     caches |-> [practice |-> EmptyDict, service_location |-> EmptyDict,
                 provider |-> EmptyDict, referring |-> EmptyDict, case |-> EmptyDict],
     log |-> <<>>, faults |-> 0, pc |-> "rows", idx |-> 1, groups |-> <<>>,
     summary |-> [total_rows |-> 0, encounters_created |-> 0, payments_posted |-> 0,
                  failed_rows |-> 0, results |-> <<>>]]

\* no second invocation
NoPeer == [StartFrame(<<>>) EXCEPT !.pc = "none"]

Init ==
    /\ batch \in Batches
    /\ outp = [i \in 1..Len(batch) |-> InitialOutput]
    /\ caches = [practice |-> EmptyDict, service_location |-> EmptyDict,
                 provider |-> EmptyDict, referring |-> EmptyDict, case |-> EmptyDict]
    /\ log = <<>>
    /\ faults = 0
    /\ pc = "rows"
    /\ idx = 1
    /\ groups = <<>>
    /\ summary = [total_rows |-> 0, encounters_created |-> 0, payments_posted |-> 0,
                  failed_rows |-> 0, results |-> <<>>]
    /\ peer = NoPeer

-----------------------------------------------------------------------------
(* Phases 1 and 2 of one row *)

\* "; ".join(filter(None, msgs)).strip('; '): the clauses that are not empty
JoinMessages(msgs) == SelectSeq(msgs, LAMBDA m : m # NoMsg)

\* [m.strip() for m in s.split(';') if m.strip()]: the clauses of a column
SplitMessages(column) == SelectSeq(column, LAMBDA m : m # NoMsg)

\* src/src/routes/user.py:1317-1319: the Phase 1 clause of a row
Phase1Message(insurance_results) ==
    IF insurance_results.SimpleError # NoMsg
    THEN Msg("P1 Error: " \o insurance_results.SimpleError.t, insurance_results.SimpleError.a)
    ELSE IF insurance_results.FetchedInsuranceStatus \notin
              {"Active", "Active (Primary)", "Multiple Active Found", None, "",
               "Ins. Check Skipped (No Valid DOS)"}
    THEN Msg("P1 Status: %s", insurance_results.FetchedInsuranceStatus)
    ELSE NoMsg

\* src/src/routes/user.py:1325-1329: does the run attempt the payment
\* a test of the payment cells that leaves out the payment source
AttemptPaymentWithoutSource(pp_batch_str, payment_amount_val_str, payment_source_val_str) ==
    LET amount == ParseFloat(Strip(DropCurrency(payment_amount_val_str)))
    IN /\ \A val \in {pp_batch_str, payment_amount_val_str} :
              val # "" /\ Lower(val) # "nan"
       /\ amount.k = "num"
       /\ amount.v > 0

AttemptPayment(pp_batch_str, payment_amount_val_str, payment_source_val_str) ==
    LET amount == ParseFloat(Strip(DropCurrency(payment_amount_val_str)))
    IN /\ \A val \in {pp_batch_str, payment_amount_val_str, payment_source_val_str} :
              val # "" /\ Lower(val) # "nan"
       /\ amount.k = "num"
       /\ amount.v > 0

\* a Phase 2 that posts the payment once more when it was not posted
Phase2OfRowReposting(row, patient_id_str, practice_name_excel_str, w, ctx) ==
    LET pp_batch_str == Strip(PyStr(row.PPBatch))
        payment_amount_val_str == Strip(PyStr(row.PatientPayment))
        payment_source_val_str == Strip(PyStr(row.PaymentSource))
        result(r) == [msg |-> r.ret.SimpleMessage,
                      payment_id |-> IF r.ret.Success THEN r.ret.PaymentID ELSE NaN,
                      w |-> r.w]
    IN IF ~AttemptPayment(pp_batch_str, payment_amount_val_str, payment_source_val_str)
       THEN {[msg |-> NoMsg, payment_id |-> NaN, w |-> w]}
       ELSE UNION {
              IF p.ret \in {None, ""}
              THEN {[msg |-> Msg("P2 Error: Tebra Practice ID for '%s' (payment) not found.",
                                 practice_name_excel_str),
                     payment_id |-> NaN, w |-> p.w]}
              ELSE UNION {
                     IF r.ret.Success THEN {result(r)}
                     ELSE { result(again)
                            : again \in phase2_post_tebra_payment(patient_id_str, p.ret,
                                            pp_batch_str, payment_amount_val_str,
                                            payment_source_val_str, r.w, ctx) }
                     : r \in phase2_post_tebra_payment(patient_id_str, p.ret, pp_batch_str,
                                 payment_amount_val_str, payment_source_val_str, p.w, ctx) }
              : p \in get_practice_id_by_name(practice_name_excel_str, w, ctx) }

\* src/src/routes/user.py:1321-1338: Phase 2 of a row: [msg, payment_id, w]
Phase2OfRow(row, patient_id_str, practice_name_excel_str, w, ctx) ==
    LET pp_batch_str == Strip(PyStr(row.PPBatch))
        payment_amount_val_str == Strip(PyStr(row.PatientPayment))
        payment_source_val_str == Strip(PyStr(row.PaymentSource))
    IN IF ~AttemptPayment(pp_batch_str, payment_amount_val_str, payment_source_val_str)
       THEN {[msg |-> NoMsg, payment_id |-> NaN, w |-> w]}
       ELSE UNION {
              IF p.ret \in {None, ""}
              THEN {[msg |-> Msg("P2 Error: Tebra Practice ID for '%s' (payment) not found.",
                                 practice_name_excel_str),
                     payment_id |-> NaN, w |-> p.w]}
              ELSE { [msg |-> IF r.ret.SimpleMessage.t = "P2 Skipped: Missing one or more core payment inputs (Batch, Amount, Source)."
                                 \/ r.ret.SimpleMessage.t = "P2 Skipped: Missing/invalid data for: %s."
                              THEN NoMsg ELSE r.ret.SimpleMessage,
                      payment_id |-> IF r.ret.Success THEN r.ret.PaymentID ELSE NaN,
                      w |-> r.w]
                     : r \in phase2_post_tebra_payment(patient_id_str, p.ret, pp_batch_str,
                                 payment_amount_val_str, payment_source_val_str, p.w, ctx) }
              : p \in get_practice_id_by_name(practice_name_excel_str, w, ctx) }

\* an iteration of the loop that posts the payment of the row before it
\* fetches the patient
RowOutcomesPaymentFirst(row, out, w, i) ==
    LET patient_id_str == Strip(PyStr(row.PatientID))
        practice_name_excel_str == Strip(PyStr(row.Practice))
        dos_for_insurance_str == Strip(PyStr(row.DOS))
    IN IF patient_id_str = "" \/ practice_name_excel_str = ""
       THEN {Ret([out EXCEPT !.Error = JoinMessages(
                      <<Msg("Skipped (Ph1/2): Patient ID or Practice Name missing.", "")>>)], w)}
       ELSE UNION {
              { Ret([out EXCEPT
                       !.PatientName = p1.ret.FetchedPatientName,
                       !.DOB = p1.ret.FetchedPatientDOB,
                       !.Insurance = p1.ret.FetchedInsuranceName,
                       !.InsuranceID = p1.ret.FetchedInsuranceID,
                       !.InsuranceStatus = p1.ret.FetchedInsuranceStatus,
                       !.PaymentID = p2.payment_id,
                       !.Error = JoinMessages(<<Phase1Message(p1.ret), p2.msg>>)],
                    p1.w)
                : p1 \in phase1_fetch_patient_and_insurance(patient_id_str,
                             dos_for_insurance_str, p2.w, Ctx(1, i)) }
              : p2 \in Phase2OfRow(row, patient_id_str, practice_name_excel_str,
                                   w, Ctx(2, i)) }

\* src/src/routes/user.py:1296-1345: one iteration of the Phase 1/2 loop:
\* the output record of the row and the world after it
RowOutcomes(row, out, w, i) ==
    LET patient_id_str == Strip(PyStr(row.PatientID))
        practice_name_excel_str == Strip(PyStr(row.Practice))
        dos_for_insurance_str == Strip(PyStr(row.DOS))
    IN IF patient_id_str = "" \/ practice_name_excel_str = ""
       THEN {Ret([out EXCEPT !.Error = JoinMessages(
                      <<Msg("Skipped (Ph1/2): Patient ID or Practice Name missing.", "")>>)], w)}
       ELSE UNION {
              { Ret([out EXCEPT
                       !.PatientName = p1.ret.FetchedPatientName,
                       !.DOB = p1.ret.FetchedPatientDOB,
                       !.Insurance = p1.ret.FetchedInsuranceName,
                       !.InsuranceID = p1.ret.FetchedInsuranceID,
                       !.InsuranceStatus = p1.ret.FetchedInsuranceStatus,
                       !.PaymentID = p2.payment_id,
                       !.Error = JoinMessages(<<Phase1Message(p1.ret), p2.msg>>)],
                    p2.w)
                : p2 \in Phase2OfRow(row, patient_id_str, practice_name_excel_str,
                                     p1.w, Ctx(2, i)) }
              : p1 \in phase1_fetch_patient_and_insurance(patient_id_str,
                           dos_for_insurance_str, w, Ctx(1, i)) }

\* a row loop that goes through a row again when one of its remote calls
\* did not give the nominal answer
ProcessRowRetrying ==
    /\ pc = "rows"
    /\ idx <= Len(batch)
    /\ \E r \in RowOutcomes(batch[idx], outp[idx], World(caches, log, faults), idx) :
          /\ outp' = [outp EXCEPT ![idx] = r.ret]
          /\ caches' = r.w.caches
          /\ log' = r.w.log
          /\ faults' = r.w.faults
          /\ idx' = IF r.w.faults > faults THEN idx ELSE idx + 1
    /\ UNCHANGED <<batch, pc, groups, summary, peer>>

ProcessRow ==
    /\ pc = "rows"
    /\ idx <= Len(batch)
    /\ \E r \in RowOutcomes(batch[idx], outp[idx], World(caches, log, faults), idx) :
          /\ outp' = [outp EXCEPT ![idx] = r.ret]
          /\ caches' = r.w.caches
          /\ log' = r.w.log
          /\ faults' = r.w.faults
    /\ idx' = idx + 1
    /\ UNCHANGED <<batch, pc, groups, summary, peer>>


-----------------------------------------------------------------------------
(* Phase 3 grouping and propagation *)

\* a filter that keeps the rows without a fetched patient name
GroupableWithoutName(i) ==
    /\ ~IsNa(batch[i].PatientID) /\ Strip(PyStr(batch[i].PatientID)) # ""
    /\ ~IsNa(batch[i].DOS) /\ Strip(PyStr(batch[i].DOS)) # ""
    /\ ~IsNa(batch[i].Practice) /\ Strip(PyStr(batch[i].Practice)) # ""

\* src/src/routes/user.py:1361: the rows that take part in Phase 3
Groupable(i) ==
    /\ ~IsNa(batch[i].PatientID) /\ Strip(PyStr(batch[i].PatientID)) # ""
    /\ ~IsNa(batch[i].DOS) /\ Strip(PyStr(batch[i].DOS)) # ""
    /\ ~IsNa(batch[i].Practice) /\ Strip(PyStr(batch[i].Practice)) # ""
    /\ ~IsNa(outp[i].PatientName) /\ Strip(PyStr(outp[i].PatientName)) # ""

\* a key without the day of service
GroupKeyWithoutDos(i) == <<batch[i].PatientID, "", batch[i].Practice>>

\* src/src/routes/user.py:1365: the key a row is grouped under
GroupKey(i) == <<batch[i].PatientID, PyStr(batch[i].DOS), batch[i].Practice>>

\* the order of two keys in grouped_for_encounter.groups
KeyBefore(a, b) ==
    \/ StrRank(a[1]) < StrRank(b[1])
    \/ a[1] = b[1] /\ StrRank(a[2]) < StrRank(b[2])
    \/ a[1] = b[1] /\ a[2] = b[2] /\ StrRank(a[3]) < StrRank(b[3])

\* the rows of a set in ascending order, with their numbers
RECURSIVE RowsOf(_)
RowsOf(S) ==
    IF S = {} THEN <<>>
    ELSE LET i == CHOOSE x \in S : \A y \in S : x <= y
         IN <<[n |-> i, row |-> batch[i]]>> \o RowsOf(S \ {i})

\* a grouping that makes one group of every row, rows of one key included
GroupsPerRow(keys) ==
    LET rows == RowsOf({i \in 1..Len(batch) : Groupable(i)})
    IN [j \in 1..Len(rows) |-> [key |-> GroupKey(rows[j].n), rows |-> <<rows[j]>>]]

\* grouped_for_encounter.groups: the groups in key order
RECURSIVE GroupsOf(_)
GroupsOf(keys) ==
    IF keys = {} THEN <<>>
    ELSE LET k == CHOOSE a \in keys : \A b \in keys \ {a} : KeyBefore(a, b)
         IN <<[key |-> k,
               rows |-> RowsOf({i \in 1..Len(batch) : Groupable(i) /\ GroupKey(i) = k})]>>
            \o GroupsOf(keys \ {k})

\* src/src/routes/user.py:1346-1366: the end of the row loop and the grouping
GroupRows ==
    /\ pc = "rows"
    /\ idx > Len(batch)
    /\ groups' = GroupsOf({GroupKey(i) : i \in {j \in 1..Len(batch) : Groupable(j)}})
    /\ pc' = "groups"
    /\ idx' = 1
    /\ UNCHANGED <<batch, outp, caches, log, faults, summary, peer>>

\* src/src/routes/user.py:1376, 1381: a Phase 3 error of the group is put
\* after what the column holds
AppendGroupError(column, error_msg) == JoinMessages(Append(column, error_msg))

\* a propagation that puts the group's message in the place of the column
PropagateReplacing(out, p3_results) ==
    [out EXCEPT
       !.EncounterID = p3_results.EncounterID,
       !.ChargeAmount = p3_results.ChargeAmount,
       !.ChargeStatus = p3_results.ChargeStatus,
       !.Error = JoinMessages(<<p3_results.SimpleMessage>>)]

\* src/src/routes/user.py:1394-1405: the result of the group on one row
Propagate(out, p3_results) ==
    LET all_msgs == SplitMessages(out.Error)
        p3_simple == p3_results.SimpleMessage
        is_created == /\ p3_results.EncounterID # None
                      /\ p3_simple.t = "Encounter #%s Created."
                      /\ p3_simple.a = p3_results.EncounterID
        has_created == /\ p3_results.EncounterID # None
                       /\ \E j \in 1..Len(all_msgs) :
                             /\ all_msgs[j].t = "Encounter #%s Created."
                             /\ all_msgs[j].a = p3_results.EncounterID
    IN [out EXCEPT
          !.EncounterID = p3_results.EncounterID,
          !.ChargeAmount = p3_results.ChargeAmount,
          !.ChargeStatus = p3_results.ChargeStatus,
          !.Error = JoinMessages(IF p3_simple # NoMsg /\ ~(is_created /\ has_created)
                                 THEN Append(all_msgs, p3_simple) ELSE all_msgs)]

\* every row of the batch taken for a row of the group
EveryRow(g) == DOMAIN batch

\* the first row of the group taken for its rows
FirstMember(g) == {g.rows[1].n}

\* the rows of a group, as a set of row numbers
Members(g) == {g.rows[j].n : j \in 1..Len(g.rows)}

\* src/src/routes/user.py:1368-1405: one iteration of the group loop: the
\* output columns and the world after it
GroupOutcomes(g, out, w, gi) ==
    LET patient_full_name_grp == Strip(PyStr(out[g.rows[1].n].PatientName))
        fail(error_msg) ==
            [i \in DOMAIN out |->
                IF i \in Members(g)
                THEN [out[i] EXCEPT !.Error = AppendGroupError(@, error_msg)]
                ELSE out[i]]
    IN IF patient_full_name_grp = ""
       THEN {Ret(fail(Msg("P3 Error: Patient Full Name missing for group.", "")), w)}
       ELSE UNION {
              IF p.ret \in {None, ""}
              THEN {Ret(fail(Msg("P3 Error: Tebra Practice ID for '%s' (enc) not found.",
                                 g.key[3])), p.w)}
              ELSE { Ret([i \in DOMAIN out |->
                            IF i \in Members(g) THEN Propagate(out[i], r.ret) ELSE out[i]],
                         r.w)
                     : r \in create_encounter_for_group_and_get_details(
                                 g.key, g.rows, p.ret, p.w, Ctx(3, gi)) }
              : p \in get_practice_id_by_name(g.key[3], w, Ctx(3, gi)) }

ProcessGroup ==
    /\ pc = "groups"
    /\ idx <= Len(groups)
    /\ \E r \in GroupOutcomes(groups[idx], outp, World(caches, log, faults), idx) :
          /\ outp' = r.ret
          /\ caches' = r.w.caches
          /\ log' = r.w.log
          /\ faults' = r.w.faults
    /\ idx' = idx + 1
    /\ UNCHANGED <<batch, pc, groups, summary, peer>>

-----------------------------------------------------------------------------
(* Summary *)

\* re "Payment #\w+ Posted" on a clause
PaymentPostedIn(m) == m.t = "Payment #%s Posted."

\* re "Encounter #\w+ Created" on a clause
EncounterCreatedIn(m) == m.t = "Encounter #%s Created."

\* re "Error|Failed|Skipped", case ignored, on the texts of the model
HasFailureWord(s) ==
    s \in { "Skipped (Ph1/2): Patient ID or Practice Name missing.",
            "P1 Error: SOAP Fault(GetPt): %s", "P1 Error: API Err(GetPt): %s",
            "P1 Error: API Auth Err(GetPt): %s", "P1 Error: Patient data not in API resp.",
            "P1 Error: Patient ID is missing.", "P1 Error: Invalid Patient ID format: '%s'.",
            "P1 Error: Invalid DOS '%s': ...",
            "P2 Failed (SOAP Error).", "P2 API Error (%s...)", "P2 API Auth Error.",
            "P2 Error: Tebra Practice ID for '%s' (payment) not found.",
            "P3 Error: Patient Full Name missing for group.",
            "P3 Error: Tebra Practice ID for '%s' (enc) not found.",
            "Enc Error: No rows in group.", "Enc Error: Missing Tebra Practice ID.",
            "Enc Error: SL '%s' not found for TebraPracID %s.",
            "Enc Error: Case ID not found for Pt %s.",
            "Enc Error: Rendering Provider name missing.",
            "Enc Error: Rendering Provider ID for '%s' not found.",
            "Enc Error: Invalid DOS '%s'.",
            "Enc Error: Failed service line from Excel row %s.",
            "Enc System Error: %s.",
            " (Status Warn: API Error (GetEncStatus): " \o RemoteText \o ")",
            " (Status Warn: API Auth Error (GetEncStatus): " \o RemoteText \o ")",
            " (Charge Warn: API Error (GetCharges): " \o RemoteText \o ")",
            " (Charge Warn: API Auth Error (GetCharges): " \o RemoteText \o ")" }

UpperLetters == "ABCDEFGHIJKLMNOPQRSTUVWXYZ"
LowerLetters == "abcdefghijklmnopqrstuvwxyz"

\* c.lower() of a character
LowerChar(c) ==
    IF \E k \in 1..Len(UpperLetters) : CharAt(UpperLetters, k) = c
    THEN CharAt(LowerLetters, CHOOSE k \in 1..Len(UpperLetters) : CharAt(UpperLetters, k) = c)
    ELSE c

\* re.search(word, s, re.IGNORECASE) for a word of small letters
HasIgnoringCase(s, word) ==
    \E j \in 1..(Len(s) - Len(word) + 1) :
        \A k \in 1..Len(word) : LowerChar(CharAt(s, j + k - 1)) = CharAt(word, k)

\* src/src/routes/user.py:1417 the failure words in a text of the service
FailureWordInText(s) ==
    \E word \in {"error", "failed", "skipped"} : HasIgnoringCase(s, word)

\* the simplified messages of the service, and those with a failure word
SimplifiedMessages == {SimplifiedMessage[m] : m \in EncounterErrorMessages}
SimplifiedWithFailureWord == {s \in SimplifiedMessages : FailureWordInText(s)}

FailureWordIn(m) ==
    \/ HasFailureWord(m.t)
    \/ \E j \in 1..Len(m.sfx) : HasFailureWord(m.sfx[j])
    \/ /\ m.t = "Enc API Err: %s"
       /\ IF m.a \in SimplifiedMessages THEN m.a \in SimplifiedWithFailureWord
          ELSE FailureWordInText(m.a)

\* src/src/routes/user.py:1415-1420: the three row tests of the summary
PaymentPostedRow(out) == \E j \in 1..Len(out.Error) : PaymentPostedIn(out.Error[j])
EncounterCreatedRow(out) == \E j \in 1..Len(out.Error) : EncounterCreatedIn(out.Error[j])

\* a failed-row test that leaves out the two exclusions
FailedRowDespiteSuccess(out) == \E j \in 1..Len(out.Error) : FailureWordIn(out.Error[j])

\* src/src/routes/user.py:1417-1419 failed_conditions
FailedRow(out) ==
    /\ \E j \in 1..Len(out.Error) : FailureWordIn(out.Error[j])
    /\ ~EncounterCreatedRow(out)
    /\ ~PaymentPostedRow(out)

\* src/src/routes/user.py:1424 clean_for_json
clean_for_json(value) == IF IsNa(value) THEN None ELSE value

\* a summary that counts every row with a failure word as failed
SummaryOfCountingEveryFailureWord(rows, out) ==
    [total_rows |-> Len(rows),
     encounters_created |-> Cardinality({i \in DOMAIN out : ~IsNa(out[i].EncounterID)}),
     payments_posted |-> Cardinality({i \in DOMAIN out : PaymentPostedRow(out[i])}),
     failed_rows |-> Cardinality({i \in DOMAIN out :
                                     \E j \in 1..Len(out[i].Error) : FailureWordIn(out[i].Error[j])}),
     results |-> [i \in DOMAIN out |->
                    [row_number |-> ToString(i + 1),
                     practice_name |-> clean_for_json(rows[i].Practice),
                     patient_id |-> clean_for_json(rows[i].PatientID),
                     results |-> out[i].Error]]]

\* a summary that lists only the rows that have a message
SummaryOfRowsWithMessage(rows, out) ==
    LET kept == SelectSeq([i \in DOMAIN out |-> i], LAMBDA i : out[i].Error # <<>>)
    IN [total_rows |-> Len(rows),
        encounters_created |-> Cardinality({i \in DOMAIN out : ~IsNa(out[i].EncounterID)}),
        payments_posted |-> Cardinality({i \in DOMAIN out : PaymentPostedRow(out[i])}),
        failed_rows |-> Cardinality({i \in DOMAIN out : FailedRow(out[i])}),
        results |-> [k \in DOMAIN kept |->
                       [row_number |-> ToString(kept[k] + 1),
                        practice_name |-> clean_for_json(rows[kept[k]].Practice),
                        patient_id |-> clean_for_json(rows[kept[k]].PatientID),
                        results |-> out[kept[k]].Error]]]

\* src/src/routes/user.py:1411-1441: the summary of the run
SummaryOf(rows, out) ==
    [total_rows |-> Len(rows),
     encounters_created |-> Cardinality({i \in DOMAIN out : ~IsNa(out[i].EncounterID)}),
     payments_posted |-> Cardinality({i \in DOMAIN out : PaymentPostedRow(out[i])}),
     failed_rows |-> Cardinality({i \in DOMAIN out : FailedRow(out[i])}),
     results |-> [i \in DOMAIN out |->
                    [row_number |-> ToString(i + 1),
                     practice_name |-> clean_for_json(rows[i].Practice),
                     patient_id |-> clean_for_json(rows[i].PatientID),
                     results |-> out[i].Error]]]

\* src/src/routes/user.py:1407-1441: the end of the group loop, the summary
\* and the return; the temporary payment column is dropped
Summarize ==
    /\ pc = "groups"
    /\ idx > Len(groups)
    /\ summary' = SummaryOf(batch, outp)
    /\ outp' = [i \in DOMAIN outp |-> [outp[i] EXCEPT !.PaymentID = NaN]]
    /\ pc' = "done"
    /\ UNCHANGED <<batch, caches, log, faults, idx, groups, peer>>

Next == ProcessRow \/ GroupRows \/ ProcessGroup \/ Summarize

Spec == Init /\ [][Next]_vars

-----------------------------------------------------------------------------
(* Two invocations of run_all_phases_processing_adapted in one process, as
   two requests served at the same time: each has its own local variables
   (batch, output columns, the five caches of lines 1271-1275, position);
   the scheduler runs one of them at a time and may switch between steps. *)

\* the local variables of the running invocation
Frame ==
    [batch |-> batch, outp |-> outp, caches |-> caches, log |-> log, faults |-> faults,
     pc |-> pc, idx |-> idx, groups |-> groups, summary |-> summary]

\* a switch that leaves the caches in place, as dictionaries of the module
\* would be
SwitchSharingCaches ==
    /\ peer.pc # "none"
    /\ peer' = Frame
    /\ batch' = peer.batch
    /\ outp' = peer.outp
    /\ log' = peer.log
    /\ faults' = peer.faults
    /\ pc' = peer.pc
    /\ idx' = peer.idx
    /\ groups' = peer.groups
    /\ summary' = peer.summary
    /\ UNCHANGED caches

\* the scheduler suspends the running invocation and resumes the other one
Switch ==
    /\ peer.pc # "none"
    /\ peer' = Frame
    /\ batch' = peer.batch
    /\ outp' = peer.outp
    /\ caches' = peer.caches
    /\ log' = peer.log
    /\ faults' = peer.faults
    /\ pc' = peer.pc
    /\ idx' = peer.idx
    /\ groups' = peer.groups
    /\ summary' = peer.summary

\* the batches of two concurrent invocations: one row, with or without a
\* payment
ConcurrentRows == 1
ConcurrentRowChoices ==
    { Row(BaseKey[1], BaseKey[2], BaseKey[3], NoPay, BaseProv, BaseLine),
      Row(BaseKey[1], BaseKey[2], BaseKey[3], <<"B1", "25", "CC">>, BaseProv, BaseLine) }

InitConcurrent ==
    /\ batch \in [1..ConcurrentRows -> ConcurrentRowChoices]
    /\ outp = [i \in 1..Len(batch) |-> InitialOutput]
    /\ caches = [practice |-> EmptyDict, service_location |-> EmptyDict,
                 provider |-> EmptyDict, referring |-> EmptyDict, case |-> EmptyDict]
    /\ log = <<>>
    /\ faults = 0
    /\ pc = "rows"
    /\ idx = 1
    /\ groups = <<>>
    /\ summary = [total_rows |-> 0, encounters_created |-> 0, payments_posted |-> 0,
                  failed_rows |-> 0, results |-> <<>>]
    /\ peer \in {StartFrame(b) : b \in [1..ConcurrentRows -> ConcurrentRowChoices]}

NextConcurrent == Next \/ Switch

SpecConcurrent == InitConcurrent /\ [][NextConcurrent]_vars


\* Batches of three rows for the grouping: the base row, the same visit on
\* another day, the same visit with the practice written otherwise, and a
\* row without a day of service
GroupingRows == 3
GroupingRowChoices ==
    { Row(BaseKey[1], BaseKey[2], BaseKey[3], NoPay, BaseProv, BaseLine),
      Row(BaseKey[1], BaseKey[2], "2024-01-06", NoPay, BaseProv, BaseLine),
      Row(BaseKey[1], " clinic a ", BaseKey[3], NoPay, BaseProv, BaseLine),
      Row(BaseKey[1], BaseKey[2], NaN, NoPay, BaseProv, BaseLine) }

InitGrouping ==
    /\ batch \in [1..GroupingRows -> GroupingRowChoices]
    /\ outp = [i \in 1..Len(batch) |-> InitialOutput]
    /\ caches = [practice |-> EmptyDict, service_location |-> EmptyDict,
                 provider |-> EmptyDict, referring |-> EmptyDict, case |-> EmptyDict]
    /\ log = <<>>
    /\ faults = 0
    /\ pc = "rows"
    /\ idx = 1
    /\ groups = <<>>
    /\ summary = [total_rows |-> 0, encounters_created |-> 0, payments_posted |-> 0,
                  failed_rows |-> 0, results |-> <<>>]
    /\ peer = NoPeer

SpecGrouping == InitGrouping /\ [][Next]_vars

-----------------------------------------------------------------------------
(* One visit with its encounter: a batch of one row whose provider cells   *)
(* vary                                                                    *)

\* rendering provider names: as the service writes them, in another case,
\* in another order with a credential, of an inactive provider, of a
\* provider of another type, with one term of five, or one of two, that the
\* service does not know, and with the terms of two providers
ProviderQueries ==
    {"Dr Who", "dr who", "Who Dr MD", "Dr Gone", "Dr Ref", "Ann Bea Cy Di Ed",
     "Ann Zed", "Ann Bea", "Di Cy Bea Ann PA"}

\* scheduling and referring provider cells beside a rendering provider that
\* resolves: names the service knows, names it does not know or not under
\* the type asked for, and an empty scheduling cell of a column of the sheet
OptionalProviderChoices ==
    { <<"Dr Who", "Dr Sched", "Dr Ref">>, <<"Dr Who", "Dr Gone", NaN>>,
      <<"Dr Who", "", "Dr Who">>, <<"Dr Who", "Dr Gone", "Ann Zed">>,
      <<"Dr Who", NaN, NaN>> }

\* place-of-service cells: the eight known codes, one of them between
\* spaces, codes that are not known and an empty cell
PosCodeChoices ==
    {"02", "10", "11", "12", "21", "22", "23", "24", " 11 ", "2", "99", " ", NaN}

\* encounter-mode cells: telehealth and in-office in their spellings, a mode
\* that names both, a mode that names neither and an empty cell
EncounterModeChoices ==
    {"Telehealth", "Tele Health", "In Office", " In Office ", "Office Visit", "InOffice",
     "Telehealth In Office", "Home Visit", NaN}

\* admit and discharge cells: both dates, one date, a text that is no date,
\* empty cells of columns of the sheet, and a discharge before the admission
StayChoices ==
    { <<"2024-01-01", "2024-01-05">>, <<"2024-01-01", NaN>>, <<NaN, "2024-01-05">>,
      <<"2024-01-01", "">>, <<"bad date", "2024-01-05">>, <<"2024-01-01", "bad date">>,
      <<NaN, NaN>>, <<"2024-01-06", "2024-01-01">> }

EncounterRowChoices ==
    {Row(BaseKey[1], BaseKey[2], BaseKey[3], NoPay, <<q, "", NaN>>, BaseLine)
        : q \in ProviderQueries}
    \cup {Row(BaseKey[1], BaseKey[2], BaseKey[3], NoPay, v, BaseLine)
             : v \in OptionalProviderChoices}
    \cup {WithVisit(Row(BaseKey[1], BaseKey[2], BaseKey[3], NoPay, BaseProv, BaseLine),
                     <<c, m>>, BaseStay)
             : c \in PosCodeChoices, m \in EncounterModeChoices}
    \cup {WithVisit(Row(BaseKey[1], BaseKey[2], BaseKey[3], NoPay, BaseProv, BaseLine),
                     BasePlace, st)
             : st \in StayChoices}

InitEncounter ==
    /\ batch \in [1..1 -> EncounterRowChoices]
    /\ outp = [i \in 1..Len(batch) |-> InitialOutput]
    /\ caches = [practice |-> EmptyDict, service_location |-> EmptyDict,
                 provider |-> EmptyDict, referring |-> EmptyDict, case |-> EmptyDict]
    /\ log = <<>>
    /\ faults = 0
    /\ pc = "rows"
    /\ idx = 1
    /\ groups = <<>>
    /\ summary = [total_rows |-> 0, encounters_created |-> 0, payments_posted |-> 0,
                  failed_rows |-> 0, results |-> <<>>]
    /\ peer = NoPeer

SpecEncounter == InitEncounter /\ [][Next]_vars

-----------------------------------------------------------------------------
(* Payments: batches of two rows whose payment cells vary *)

PaymentRows == 2

\* batch number, amount and source cells: a payment, a payment of nothing,
\* no payment cells, and payments with one cell empty or of spaces
PaymentCellChoices ==
    { <<"B1", "25", "CC">>, <<"B1", "0", "CC">>, NoPay,
      <<NaN, "25", "CC">>, <<"B1", NaN, "CC">>, <<"B1", "25", NaN>>,
      <<" ", "25", "CC">>, <<"B1", " ", "CC">>, <<"B1", "25", " ">> }

PaymentRowChoices ==
    {Row(BaseKey[1], BaseKey[2], BaseKey[3], p, BaseProv, BaseLine) : p \in PaymentCellChoices}

InitPayment ==
    /\ batch \in [1..PaymentRows -> PaymentRowChoices]
    /\ outp = [i \in 1..Len(batch) |-> InitialOutput]
    /\ caches = [practice |-> EmptyDict, service_location |-> EmptyDict,
                 provider |-> EmptyDict, referring |-> EmptyDict, case |-> EmptyDict]
    /\ log = <<>>
    /\ faults = 0
    /\ pc = "rows"
    /\ idx = 1
    /\ groups = <<>>
    /\ summary = [total_rows |-> 0, encounters_created |-> 0, payments_posted |-> 0,
                  failed_rows |-> 0, results |-> <<>>]
    /\ peer = NoPeer

SpecPayment == InitPayment /\ [][Next]_vars

-----------------------------------------------------------------------------
(* The rows of a group: batches of three rows, most of one visit, whose    *)
(* cells differ from row to row                                            *)

MemberRows == 3

\* a row of the visit with cells of its own
MemberRow(prov, line, place, stay, ce_batch) ==
    [WithVisit(Row(BaseKey[1], BaseKey[2], BaseKey[3], NoPay, prov, line), place, stay)
       EXCEPT !.CEBatch = ce_batch]

\* the base row; a row with another provider of each kind, another line,
\* place, stay and batch number; a row whose provider, place and stay cells
\* cannot be used; a row without a usable line; a row of another visit
MemberRowChoices ==
    { MemberRow(BaseProv, BaseLine, BasePlace, BaseStay, BaseBatch),
      MemberRow(<<"Ann Bea Cy Di", "Dr Sched", "Dr Ref">>, <<"99214", "2", "Z01">>,
                <<"22", "Telehealth">>, <<"2024-01-01", "2024-01-05">>, "E2"),
      MemberRow(<<NaN, "Dr Gone", "Ann Zed">>, <<"99215", "2", "Z02">>,
                <<"99", "Home Visit">>, <<"bad date", "2024-01-05">>, NaN),
      MemberRow(BaseProv, <<"99213", "0", "Z00">>, BasePlace, BaseStay, BaseBatch),
      Row(BaseKey[1], BaseKey[2], "2024-01-06", NoPay, BaseProv, BaseLine) }

InitMembers ==
    /\ batch \in [1..MemberRows -> MemberRowChoices]
    /\ outp = [i \in 1..Len(batch) |-> InitialOutput]
    /\ caches = [practice |-> EmptyDict, service_location |-> EmptyDict,
                 provider |-> EmptyDict, referring |-> EmptyDict, case |-> EmptyDict]
    /\ log = <<>>
    /\ faults = 0
    /\ pc = "rows"
    /\ idx = 1
    /\ groups = <<>>
    /\ summary = [total_rows |-> 0, encounters_created |-> 0, payments_posted |-> 0,
                  failed_rows |-> 0, results |-> <<>>]
    /\ peer = NoPeer

SpecMembers == InitMembers /\ [][Next]_vars

-----------------------------------------------------------------------------
(* Properties *)

\* the remote calls of an operation, as positions of the log
CallsOf(op) == {i \in DOMAIN log : log[i].op = op}

\* the remote calls issued for a unit of work of a phase
CallsIn(ph, unit) == {i \in DOMAIN log : log[i].ph = ph /\ log[i].unit = unit}

\* the answer carries a transport fault, an API error or an auth error
Failed(ans) == ans.fault \/ ans.isError \/ ans.unauthorized

\* the row's Error column holds a clause with this text
HasClause(out, t) == \E j \in 1..Len(out.Error) : out.Error[j].t = t

\* the groups processed so far
GroupsDone == IF pc = "done" THEN DOMAIN groups
              ELSE IF pc = "groups" THEN 1..(idx - 1) ELSE {}

\* the rows that own group g: the rows grouped under its key
Owners(g) == {i \in DOMAIN batch : Groupable(i) /\ GroupKey(i) = groups[g].key}

\* C1: in one run CreateEncounter is invoked at most once for each GroupKey
\* (patient, day of service, practice as written), whatever its answer: no
\* two calls of the log carry the same key, so no submission is retried.
C1_EncounterOncePerGroupKey ==
    \A i, j \in CallsOf("CreateEncounter") : log[i].key = log[j].key => i = j

\* C1 witness: the run is over, two groups were submitted, and the
\* submission of one of them failed with a transport fault.
C1_Witness ==
    /\ pc = "done"
    /\ Cardinality(CallsOf("CreateEncounter")) = 2
    /\ \E i \in CallsOf("CreateEncounter") : log[i].ans.fault

\* the service line cells of a row that the code refuses: a procedure cell of
\* blanks, blank or non-numeric units, units <= 0, a blank first diagnosis
BlankCell(v) == IsNa(v) \/ Strip(PyStr(v)) = ""
RefusedLine(row) ==
    \/ ~IsNa(row.Procedures) /\ Strip(PyStr(row.Procedures)) = ""
    \/ BlankCell(row.Units)
    \/ ParseFloat(Strip(PyStr(row.Units))).k # "num"
    \/ ParseFloat(Strip(PyStr(row.Units))).v <= 0
    \/ BlankCell(row.Diag1)

\* a row that would make a partial encounter: the above, or a procedure cell
\* that is empty in the sheet
PartialRow(row) == IsNa(row.Procedures) \/ RefusedLine(row)

\* C2 as stated: a processed group with a member row that has a blank
\* procedure code, blank or non-numeric units, units <= 0 or a blank first
\* diagnosis is never submitted and none of its rows has an Encounter ID.
C2_NoPartialEncounter ==
    \A g \in GroupsDone :
        (\E r \in Owners(g) : PartialRow(batch[r]))
        => /\ \A i \in CallsIn(3, g) : log[i].op # "CreateEncounter"
           /\ \A r \in Owners(g) : IsNa(outp[r].EncounterID)

\* C2, the part the code keeps: the same for every unusable cell except a
\* procedure cell that is empty in the sheet.
C2_RefusedLineAbortsGroup ==
    \A g \in GroupsDone :
        (\E r \in Owners(g) : RefusedLine(batch[r]))
        => /\ \A i \in CallsIn(3, g) : log[i].op # "CreateEncounter"
           /\ \A r \in Owners(g) : IsNa(outp[r].EncounterID)

\* C2 failing case: a group with a row whose procedure cell is empty was
\* submitted with the procedure code "nan" and its rows have an Encounter ID.
C2_Witness ==
    \E g \in GroupsDone :
        /\ \E r \in Owners(g) : IsNa(batch[r].Procedures)
        /\ \E i \in CallsIn(3, g) :
              /\ log[i].op = "CreateEncounter"
              /\ \E k \in 1..Len(log[i].req.ServiceLines) :
                    log[i].req.ServiceLines[k].ProcedureCode = "nan"
        /\ \A r \in Owners(g) : ~IsNa(outp[r].EncounterID)


\* the last clause of a row's Error column
LastClause(out) == out.Error[Len(out.Error)]

\* the state of the four required resolutions of group g as the caches hold
\* them: an ID, or None for an entity that is not resolved
PracticeOf(c, g) ==
    LET k == Lower(Strip(PyStr(groups[g].key[3])))
    IN IF k \in DOMAIN c.practice THEN c.practice[k] ELSE None
ServiceLocationOf(c, g) ==
    LET k == <<PracticeOf(c, g), Lower(Strip(PyStr(groups[g].key[3])))>>
    IN IF k \in DOMAIN c.service_location THEN c.service_location[k] ELSE None
CaseOf(c, g) ==
    LET k == <<ToString(ParseInt(Strip(groups[g].key[1])).v)>>
    IN IF k \in DOMAIN c.case THEN c.case[k] ELSE None
RenderingOf(c, g) ==
    LET k == <<PracticeOf(c, g),
               Lower(Strip(PyStr(groups[g].rows[1].row.RenderingProvider)))>>
    IN IF k \in DOMAIN c.provider THEN c.provider[k] ELSE None

\* the message of the first required entity of group g that is not resolved,
\* "" when all four are
UnresolvedMessage(c, g) ==
    IF PracticeOf(c, g) = None
    THEN "P3 Error: Tebra Practice ID for '%s' (enc) not found."
    ELSE IF ServiceLocationOf(c, g) = None
    THEN "Enc Error: SL '%s' not found for TebraPracID %s."
    ELSE IF CaseOf(c, g) = None THEN "Enc Error: Case ID not found for Pt %s."
    ELSE IF RenderingOf(c, g) = None
    THEN "Enc Error: Rendering Provider ID for '%s' not found."
    ELSE ""

\* every CreateEncounter request carries the four resolved IDs
C3_SubmittedResolved ==
    \A i \in CallsOf("CreateEncounter") :
        /\ log[i].req.Practice \notin {None, ""}
        /\ log[i].req.ServiceLocation \notin {None, ""}
        /\ log[i].req.Case \notin {None, ""}
        /\ log[i].req.RenderingProvider \notin {None, ""}

\* a group whose practice, service location, case or rendering provider is
\* not resolved when its processing ends was not submitted, its rows end
\* with the message of that entity and have no Encounter ID
C3_UnresolvedAborts ==
    (pc = "groups" /\ idx <= Len(groups) /\ idx' = idx + 1
     /\ UnresolvedMessage(caches', idx) # "")
    => /\ \A i \in DOMAIN log' :
            log'[i].ph = 3 /\ log'[i].unit = idx => log'[i].op # "CreateEncounter"
       /\ \A r \in Owners(idx) :
            /\ LastClause(outp'[r]).t = UnresolvedMessage(caches', idx)
            /\ IsNa(outp'[r].EncounterID)

\* C3: CreateEncounter is invoked for a group only with the practice ID, the
\* service-location ID, the case ID and the rendering-provider ID resolved;
\* a group with one of them unresolved is aborted before submission, its
\* rows receive the error message of that entity and no Encounter ID.
C3_RequiredIdsResolved == []C3_SubmittedResolved /\ [][C3_UnresolvedAborts]_vars

\* C3 witness: a processed group with practice and service location resolved
\* and no case: its rows carry the case message, nothing was submitted.
C3_Witness ==
    \E g \in GroupsDone :
        /\ \E i \in CallsIn(3, g) : log[i].op = "GetServiceLocations" /\ ~Failed(log[i].ans)
        /\ \A r \in Owners(g) : HasClause(outp[r], "Enc Error: Case ID not found for Pt %s.")
        /\ \A i \in CallsIn(3, g) : log[i].op # "CreateEncounter"

\* the five resolvers
Resolvers ==
    {"get_practice_id_by_name", "get_service_location_id_by_name",
     "get_provider_id_by_name_phase3", "get_referring_provider_details_for_encounter",
     "get_case_id_for_patient_phase3"}

\* C4 as stated: within one run each resolver issues at most one remote
\* lookup per normalized key, whatever the outcome of that lookup.
C4_OneLookupPerKey ==
    \A i, j \in DOMAIN log :
        (log[i].fn \in Resolvers /\ log[i].fn = log[j].fn /\ log[i].key = log[j].key)
        => i = j

\* the lookups whose outcome the resolver stores: every lookup of the provider
\* and the case resolver; a lookup of the practice or the service-location
\* resolver that did not fail; a lookup of the referring-provider resolver
\* that did not fail and returned provider data
Stored(e) ==
    \/ e.fn \in {"get_provider_id_by_name_phase3", "get_case_id_for_patient_phase3"}
    \/ e.fn \in {"get_practice_id_by_name", "get_service_location_id_by_name"}
       /\ ~Failed(e.ans)
    \/ e.fn = "get_referring_provider_details_for_encounter"
       /\ ~Failed(e.ans) /\ e.ans.data # <<>>

\* C4, the part the code keeps: no lookup follows a stored lookup of the
\* same resolver and key, found or not found.
C4_NoLookupAfterStored ==
    \A i, j \in DOMAIN log :
        (log[i].fn \in Resolvers /\ log[i].fn = log[j].fn /\ log[i].key = log[j].key
         /\ Stored(log[i]))
        => j <= i

\* C4 failing case: the practice resolver looked the same name up twice; the
\* first lookup failed.
C4_Witness ==
    \E i, j \in CallsOf("GetPractices") :
        i < j /\ log[i].key = log[j].key /\ Failed(log[i].ans)


\* the rows processed by the Phase 1/2 loop so far
RowsDone == IF pc = "rows" THEN 1..(idx - 1) ELSE DOMAIN batch

\* the CreateEncounter requests of a unit of work
Submissions(g) == {i \in CallsIn(3, g) : log[i].op = "CreateEncounter"}

\* what the caller of a resolver did with the "not found" of the failed
\* lookup e: the error of the owning row or group, or, for an optional
\* provider, the request without it
NotFoundHandled(e) ==
    CASE e.fn = "get_practice_id_by_name" /\ e.ph = 2 ->
           /\ HasClause(outp[e.unit], "P2 Error: Tebra Practice ID for '%s' (payment) not found.")
           /\ \A i \in CallsIn(2, e.unit) : log[i].op # "CreatePayment"
      [] e.fn = "get_practice_id_by_name" /\ e.ph = 3 ->
           /\ \A r \in Owners(e.unit) :
                 HasClause(outp[r], "P3 Error: Tebra Practice ID for '%s' (enc) not found.")
           /\ Submissions(e.unit) = {}
      [] e.fn = "get_service_location_id_by_name" ->
           /\ \A r \in Owners(e.unit) :
                 HasClause(outp[r], "Enc Error: SL '%s' not found for TebraPracID %s.")
           /\ Submissions(e.unit) = {}
      [] e.fn = "get_case_id_for_patient_phase3" ->
           /\ \A r \in Owners(e.unit) :
                 HasClause(outp[r], "Enc Error: Case ID not found for Pt %s.")
           /\ Submissions(e.unit) = {}
      [] e.fn = "get_provider_id_by_name_phase3" ->
           IF e.key[2] = Lower(Strip(PyStr(groups[e.unit].rows[1].row.RenderingProvider)))
           THEN /\ \A r \in Owners(e.unit) :
                      HasClause(outp[r], "Enc Error: Rendering Provider ID for '%s' not found.")
                /\ Submissions(e.unit) = {}
           ELSE /\ Submissions(e.unit) # {}
                /\ \A i \in Submissions(e.unit) : log[i].req.SchedulingProvider = None
      [] e.fn = "get_referring_provider_details_for_encounter" ->
           \A i \in Submissions(e.unit) : log[i].req.ReferringProvider = NoDetails
      [] OTHER -> TRUE

\* the run has a next step: the row or the group that is next has an outcome
\* (the steps between and after the loops are always possible)
RunGoesOn ==
    /\ (pc = "rows" /\ idx <= Len(batch))
       => RowOutcomes(batch[idx], outp[idx], World(caches, log, faults), idx) # {}
    /\ (pc = "groups" /\ idx <= Len(groups))
       => GroupOutcomes(groups[idx], outp, World(caches, log, faults), idx) # {}
    /\ pc \in {"rows", "groups", "done"}

\* C5: no resolver raises on a remote failure (API error, auth error,
\* transport fault): the failed lookup yields "not found", the caller puts
\* the error on the owning row or group (an optional provider is left out of
\* the request), and the run goes on: it is over or has a next step.
C5_ResolverFailureIsNotFound ==
    /\ \A i \in DOMAIN log :
          (log[i].fn \in Resolvers /\ Failed(log[i].ans)) => NotFoundHandled(log[i])
    /\ RunGoesOn

\* C5 witness: the run is over, the case lookup of a group failed with a
\* transport fault and a later group was submitted.
C5_Witness ==
    /\ pc = "done"
    /\ \E i \in DOMAIN log :
          /\ log[i].fn = "get_case_id_for_patient_phase3" /\ log[i].ans.fault
          /\ \E j \in DOMAIN log : j > i /\ log[j].op = "CreateEncounter"

\* the clauses Phase 2 and Phase 3 write
Phase2Clauses ==
    {"P2 Error: Tebra Practice ID for '%s' (payment) not found.", "P2 Failed (SOAP Error).",
     "P2 API Error (%s...)", "P2 API Auth Error.", "Payment #%s Posted.",
     "P2 Status Unknown (Tebra resp unclear).",
     "P2 Invalid: Payment amount format '%s'.",
     "P2 Invalid: Payment amount $%s must be > 0.",
     "P2 Invalid: Unmapped payment source '%s'."}
Phase3Clauses ==
    {"P3 Error: Patient Full Name missing for group.",
     "P3 Error: Tebra Practice ID for '%s' (enc) not found.",
     "Enc Error: No rows in group.", "Enc Error: Missing Tebra Practice ID.",
     "Enc Error: SL '%s' not found for TebraPracID %s.",
     "Enc Error: Case ID not found for Pt %s.",
     "Enc Error: Rendering Provider name missing.",
     "Enc Error: Rendering Provider ID for '%s' not found.",
     "Enc Error: Invalid DOS '%s'.",
     "Enc Error: Failed service line from Excel row %s.",
     "Enc System Error: %s.", "Enc SOAP Fault: %s...", "Enc API Err: %s",
     "Enc API Auth Err: %s", "Enc creation unclear (EncID -1 or missing).",
     "Encounter #%s Created."}

\* a row the Phase 1/2 loop does not skip, and one it attempts a payment for
RowTaken(i) ==
    Strip(PyStr(batch[i].PatientID)) # "" /\ Strip(PyStr(batch[i].Practice)) # ""
PaymentAttempted(i) ==
    /\ RowTaken(i)
    /\ AttemptPayment(Strip(PyStr(batch[i].PPBatch)), Strip(PyStr(batch[i].PatientPayment)),
                      Strip(PyStr(batch[i].PaymentSource)))

\* at the end of the run every row went through Phase 1 and Phase 2 and
\* every group through Phase 3, whatever failed before it
C6_EveryUnitProcessed ==
    pc = "done" =>
        /\ \A i \in DOMAIN batch :
              /\ (RowTaken(i) /\ ParseInt(Strip(PyStr(batch[i].PatientID))).k = "num")
                 => \E c \in CallsIn(1, i) : log[c].op = "GetPatient"
              /\ PaymentAttempted(i)
                 => \E j \in 1..Len(outp[i].Error) : outp[i].Error[j].t \in Phase2Clauses
        /\ \A g \in DOMAIN groups : \A r \in Owners(g) :
              outp[r].Error # <<>> /\ LastClause(outp[r]).t \in Phase3Clauses

\* a step of the row loop writes the row it processes only, a step of the
\* group loop writes the rows of the group only
C6_OnlyOwnRows ==
    /\ (pc = "rows" /\ idx <= Len(batch))
       => \A r \in DOMAIN outp : r # idx => outp'[r] = outp[r]
    /\ (pc = "groups" /\ idx <= Len(groups))
       => \A r \in DOMAIN outp : r \notin Owners(idx) => outp'[r] = outp[r]
    /\ (pc = "groups" /\ idx > Len(groups))
       => \A r \in DOMAIN outp : outp'[r].Error = outp[r].Error

\* C6: a failure (unresolved entity, API or auth error, transport fault,
\* ambiguous response) in one row or group does not abort the run: every row
\* still goes through Phases 1 and 2 and every group through Phase 3, and
\* the messages of a unit of work go to its own rows only.
C6_FailuresIsolated == []C6_EveryUnitProcessed /\ [][C6_OnlyOwnRows]_vars

\* C6 witness: the run is over; Phase 1 of row 1 failed with a transport
\* fault, row 2 belongs to another group, and that group was created.
C6_Witness ==
    /\ pc = "done"
    /\ \E c \in CallsIn(1, 1) : log[c].ans.fault
    /\ Len(batch) = 2
    /\ HasClause(outp[1], "P1 Error: SOAP Fault(GetPt): %s")
    /\ ~HasClause(outp[2], "P1 Error: SOAP Fault(GetPt): %s")
    /\ HasClause(outp[2], "Encounter #%s Created.")

\* a response with neither a positive ID nor an error or auth flag
Ambiguous(ans) == ~Failed(ans) /\ ans.data <= 0

\* the rows whose payment, and the rows whose group's encounter, got an
\* ambiguous response
AmbiguousPaymentRows ==
    {log[i].unit : i \in {c \in CallsOf("CreatePayment") : Ambiguous(log[c].ans)}}
AmbiguousEncounterRows ==
    UNION {Owners(log[i].unit) : i \in {c \in CallsOf("CreateEncounter") : Ambiguous(log[c].ans)}}

\* C7: an ambiguous response is never promoted to success.  A CreatePayment
\* response with no positive ID and no flag leaves the row without payment
\* ID, with the unclear-response message and out of payments_posted; a
\* CreateEncounter response of that kind leaves the rows of the group
\* without Encounter ID, with the unclear message and out of
\* encounters_created.
C7_AmbiguousNeverSuccess ==
    /\ \A r \in AmbiguousPaymentRows :
          /\ IsNa(outp[r].PaymentID)
          /\ HasClause(outp[r], "P2 Status Unknown (Tebra resp unclear).")
          /\ ~PaymentPostedRow(outp[r])
    /\ \A r \in AmbiguousEncounterRows :
          /\ IsNa(outp[r].EncounterID)
          /\ HasClause(outp[r], "Enc creation unclear (EncID -1 or missing).")
          /\ ~EncounterCreatedRow(outp[r])
    /\ pc = "done" =>
          /\ summary.payments_posted =
                Cardinality({r \in DOMAIN outp \ AmbiguousPaymentRows : PaymentPostedRow(outp[r])})
          /\ summary.encounters_created =
                Cardinality({r \in DOMAIN outp \ AmbiguousEncounterRows : ~IsNa(outp[r].EncounterID)})

\* C7 witness: the run is over and the payment of a row got an ambiguous
\* response.
C7_Witness == pc = "done" /\ AmbiguousPaymentRows # {}

\* C7 witness for encounters: the run is over and the encounter of a group
\* of two rows got an ambiguous response.
C7_WitnessEncounter ==
    pc = "done" /\ Cardinality(AmbiguousEncounterRows) = 2

\* the CreatePayment responses of row r that carry a positive payment ID and
\* neither an error flag nor an unauthorized flag
GoodPayments(r) ==
    {i \in CallsIn(2, r) : /\ log[i].op = "CreatePayment"
                           /\ ~Failed(log[i].ans) /\ log[i].ans.data > 0}

\* C8: Phase 2 reports success (payment ID recorded, "Payment # Posted"
\* message) if and only if the CreatePayment response carries a positive
\* payment ID and neither an error flag nor an unauthorized flag; with a
\* flag and a positive ID it is a failure and no payment ID is recorded.
C8_PaymentSuccessIff ==
    \A r \in RowsDone :
        /\ PaymentPostedRow(outp[r]) <=> GoodPayments(r) # {}
        /\ pc # "done" => (~IsNa(outp[r].PaymentID) <=> GoodPayments(r) # {})
        /\ \A i \in GoodPayments(r) :
              pc # "done" => outp[r].PaymentID = ToString(log[i].ans.data)

\* C8 witness: a CreatePayment response carried an error flag and a positive
\* payment ID; the row has the API error message and no payment ID.
C8_Witness ==
    \E i \in CallsOf("CreatePayment") :
        /\ log[i].ans.isError /\ log[i].ans.data > 0
        /\ pc = "groups"
        /\ HasClause(outp[log[i].unit], "P2 API Error (%s...)")
        /\ IsNa(outp[log[i].unit].PaymentID)


\* the payment cells of row i are all given, and its cleaned amount
PaymentCellsGiven(i) ==
    /\ RowTaken(i)
    /\ \A v \in {batch[i].PPBatch, batch[i].PatientPayment, batch[i].PaymentSource} :
          ~IsNa(v) /\ Strip(PyStr(v)) # "" /\ Lower(Strip(PyStr(v))) # "nan"
CleanedAmount(i) == Strip(DropCurrency(Strip(PyStr(batch[i].PatientPayment))))

\* C9, the part the code keeps: CreatePayment is invoked for a row only when
\* its cleaned amount parses to a number > 0, its upper-cased source is in
\* the alias table and the practice ID resolved; the request carries the
\* amount with two decimals, the code of the source and the practice ID.
C9_CreatePaymentGuard ==
    \A i \in CallsOf("CreatePayment") :
        LET r == log[i].unit
        IN /\ log[i].ph = 2
           /\ PaymentCellsGiven(r)
           /\ ParseFloat(CleanedAmount(r)).k = "num"
           /\ ParseFloat(CleanedAmount(r)).v > 0
           /\ Upper(Strip(PyStr(batch[r].PaymentSource))) \in DOMAIN PAYMENT_SOURCE_TO_CODE
           /\ log[i].req[1] \notin {None, ""}
           /\ log[i].req[1] = caches.practice[Lower(Strip(PyStr(batch[r].Practice)))]
           /\ log[i].req[2] = FormatMoney(ParseFloat(CleanedAmount(r)).v)
           /\ log[i].req[3] =
                 PAYMENT_SOURCE_TO_CODE[Upper(Strip(PyStr(batch[r].PaymentSource)))]

\* C9 as stated: the above, and a row whose payment cells are given with an
\* amount that is not > 0, or with a source that is not in the alias table,
\* is rejected as invalid input, with the invalid-amount or the
\* unmapped-source message and without any remote call of Phase 2.
C9_InvalidPaymentRejected ==
    /\ C9_CreatePaymentGuard
    /\ \A r \in RowsDone :
          /\ (PaymentCellsGiven(r) /\ ParseFloat(CleanedAmount(r)).k = "num"
              /\ ParseFloat(CleanedAmount(r)).v <= 0)
             => /\ HasClause(outp[r], "P2 Invalid: Payment amount $%s must be > 0.")
                /\ CallsIn(2, r) = {}
          /\ (PaymentCellsGiven(r) /\ ParseFloat(CleanedAmount(r)).k = "num"
              /\ ParseFloat(CleanedAmount(r)).v > 0
              /\ Upper(Strip(PyStr(batch[r].PaymentSource))) \notin DOMAIN PAYMENT_SOURCE_TO_CODE)
             => /\ HasClause(outp[r], "P2 Invalid: Unmapped payment source '%s'.")
                /\ CallsIn(2, r) = {}

\* C9 failing case: the run is over; a row with batch, amount "0" and source
\* "CC" caused no remote call of Phase 2 and its Error column holds the
\* created-encounter clause of its group and nothing else: no Phase 2 clause.
C9_Witness ==
    /\ pc = "done"
    /\ \E r \in DOMAIN batch :
          /\ PaymentCellsGiven(r)
          /\ batch[r].PatientPayment = "0"
          /\ CallsIn(2, r) = {}
          /\ Len(outp[r].Error) = 1
          /\ outp[r].Error[1].t = "Encounter #%s Created."

\* C9, what the code does with such rows: no CreatePayment; an amount that
\* is not > 0 leaves no Phase 2 clause and no remote call; an unmapped source
\* leaves the unmapped-source message when the practice resolved (after its
\* lookup) and the practice message when it did not.
C9_InvalidPaymentInRun ==
    \A r \in RowsDone :
        /\ (PaymentCellsGiven(r) /\ ParseFloat(CleanedAmount(r)).k # "num")
           => /\ CallsIn(2, r) = {}
              /\ \A j \in 1..Len(outp[r].Error) : outp[r].Error[j].t \notin Phase2Clauses
        /\ (PaymentCellsGiven(r) /\ ParseFloat(CleanedAmount(r)).k = "num"
            /\ ParseFloat(CleanedAmount(r)).v <= 0)
           => /\ CallsIn(2, r) = {}
              /\ \A j \in 1..Len(outp[r].Error) : outp[r].Error[j].t \notin Phase2Clauses
        /\ (PaymentCellsGiven(r) /\ ParseFloat(CleanedAmount(r)).k = "num"
            /\ ParseFloat(CleanedAmount(r)).v > 0
            /\ Upper(Strip(PyStr(batch[r].PaymentSource))) \notin DOMAIN PAYMENT_SOURCE_TO_CODE)
           => /\ \A i \in CallsIn(2, r) : log[i].op = "GetPractices"
              /\ \/ HasClause(outp[r], "P2 Invalid: Unmapped payment source '%s'.")
                 \/ HasClause(outp[r], "P2 Error: Tebra Practice ID for '%s' (payment) not found.")

\* a is a prefix of b
IsPrefix(a, b) == Len(a) <= Len(b) /\ SubSeq(b, 1, Len(a)) = a

\* C10: row messages are appended, never overwritten, across phases: every
\* step keeps the clauses a row's Error column holds, in place, so every
\* clause of Phase 1 or Phase 2 is there at the end of the run; the step of
\* a group adds the group's one message after the clauses of each of its rows.
C10_MessagesAppended ==
    [][\A r \in DOMAIN outp :
          /\ IsPrefix(outp[r].Error, outp'[r].Error)
          /\ (pc = "groups" /\ idx <= Len(groups) /\ r \in Owners(idx))
             => /\ Len(outp'[r].Error) = Len(outp[r].Error) + 1
                /\ LastClause(outp'[r]).t \in Phase3Clauses]_vars

\* C10 witness: the run is over and a row holds a Phase 1 clause, then a
\* Phase 2 clause, then the clause of its group.
C10_Witness ==
    /\ pc = "done"
    /\ \E r \in DOMAIN outp :
          /\ Len(outp[r].Error) = 3
          /\ outp[r].Error[1].t = "P1 Status: %s"
          /\ outp[r].Error[2].t \in Phase2Clauses
          /\ outp[r].Error[3].t \in Phase3Clauses


-----------------------------------------------------------------------------
(* C11: a status message on every row *)

\* the row takes part in Phase 3: it is a row of one of the groups
InSomeGroup(r) == \E g \in DOMAIN groups : r \in Owners(g)

\* Phase 1 wrote nothing about the row in its Error column: the insurance is
\* active, or the check was skipped for a day of service that is not given
\* (one that is given and unreadable is reported as an error)
QuietPhase1(r) ==
    \/ outp[r].InsuranceStatus = "Active"
    \/ /\ outp[r].InsuranceStatus = "Ins. Check Skipped (No Valid DOS)"
       /\ ~is_date_value_present(Strip(PyStr(batch[r].DOS)))

\* C11 as stated: at the end of every run that completes, every row of the
\* batch carries a non-blank status message in its Error field.
C11_EveryRowHasMessage ==
    pc = "done" => \A r \in DOMAIN outp : outp[r].Error # <<>>

\* C11 failing case: the run is over; a row with a patient, a practice, no
\* payment and an empty day-of-service cell was fetched in Phase 1 (name and
\* insurance status are written), took part in no group, and its Error
\* column is blank.
C11_Witness ==
    /\ pc = "done"
    /\ \E r \in DOMAIN outp :
          /\ IsNa(batch[r].DOS)
          /\ outp[r].PatientName = "Pat One"
          /\ outp[r].InsuranceStatus = "Active"
          /\ CallsIn(1, r) # {}
          /\ ~InSomeGroup(r)
          /\ outp[r].Error = <<>>

\* C11, what the code keeps: at the end of the run a row's Error column is
\* blank only when the row took part in no group, Phase 1 was quiet about it
\* and no payment was attempted for it; every other row carries a message.
C11_MessageUnlessQuiet ==
    pc = "done" =>
        \A r \in DOMAIN outp :
            outp[r].Error = <<>> =>
                /\ ~InSomeGroup(r)
                /\ QuietPhase1(r)
                /\ CallsIn(2, r) = {}
                /\ ~AttemptPayment(Strip(PyStr(batch[r].PPBatch)),
                                   Strip(PyStr(batch[r].PatientPayment)),
                                   Strip(PyStr(batch[r].PaymentSource)))


-----------------------------------------------------------------------------
(* C12: one outcome per phase *)

\* the clauses Phase 1 writes
Phase1Clauses ==
    {"P1 Status: %s", "P1 Error: SOAP Fault(GetPt): %s", "P1 Error: API Err(GetPt): %s",
     "P1 Error: API Auth Err(GetPt): %s", "P1 Error: Patient data not in API resp.",
     "P1 Error: Patient ID is missing.", "P1 Error: Invalid Patient ID format: '%s'.",
     "P1 Error: Invalid DOS '%s': ..."}

\* the places of a row's Error column that hold a clause of the set
ClausesOf(r, S) == {j \in 1..Len(outp[r].Error) : outp[r].Error[j].t \in S}

\* C12 as stated: at the end of the run, for every row and for each of
\* Phase 1 (patient and practice given), Phase 2 (batch, amount and source
\* given) and Phase 3 (the row is in a group) whose inputs are present,
\* exactly one outcome of that phase is recorded in the row's message.
C12_OneOutcomePerPhase ==
    pc = "done" =>
        \A r \in DOMAIN outp :
            /\ RowTaken(r) => Cardinality(ClausesOf(r, Phase1Clauses)) = 1
            /\ PaymentCellsGiven(r) => Cardinality(ClausesOf(r, Phase2Clauses)) = 1
            /\ InSomeGroup(r) => Cardinality(ClausesOf(r, Phase3Clauses)) = 1

\* C12 failing case: the run is over; Phase 1 fetched the patient of a row
\* and found the insurance active, the row's group has its encounter, and
\* the row's message holds the clause of Phase 3 and none of Phase 1.
C12_Witness ==
    /\ pc = "done"
    /\ \E r \in DOMAIN outp :
          /\ RowTaken(r)
          /\ CallsIn(1, r) # {}
          /\ outp[r].InsuranceStatus = "Active"
          /\ ClausesOf(r, Phase1Clauses) = {}
          /\ InSomeGroup(r)
          /\ ClausesOf(r, Phase3Clauses) = {Len(outp[r].Error)}
          /\ EncounterCreatedRow(outp[r])

\* C12, what the code keeps: at the end of the run a row's message holds at
\* most one clause of Phase 1 and at most one of Phase 2; a row that was
\* taken holds a Phase 1 clause exactly when Phase 1 was not quiet about it,
\* and a Phase 2 clause exactly when its payment was attempted; a row holds
\* exactly one Phase 3 clause when it is in a group and none otherwise; a
\* skipped row holds the skip message and nothing else.
C12_OutcomesRecorded ==
    pc = "done" =>
        \A r \in DOMAIN outp :
            /\ Cardinality(ClausesOf(r, Phase1Clauses)) <= 1
            /\ Cardinality(ClausesOf(r, Phase2Clauses)) <= 1
            /\ RowTaken(r) => (ClausesOf(r, Phase1Clauses) = {} <=> QuietPhase1(r))
            /\ RowTaken(r) => (ClausesOf(r, Phase2Clauses) # {} <=> PaymentAttempted(r))
            /\ Cardinality(ClausesOf(r, Phase3Clauses)) = (IF InSomeGroup(r) THEN 1 ELSE 0)
            /\ ~RowTaken(r) =>
                  /\ Len(outp[r].Error) = 1
                  /\ outp[r].Error[1].t = "Skipped (Ph1/2): Patient ID or Practice Name missing."


-----------------------------------------------------------------------------
(* C13: the order of the phases *)

\* the remote call a was issued for a unit of work that comes before, or is,
\* the unit of call b: rows in order, Phase 1 of a row before its Phase 2,
\* every row before every group, groups in order
UnitNotAfter(a, b) ==
    IF a.ph = 3 THEN b.ph = 3 /\ a.unit <= b.unit
    ELSE \/ b.ph = 3
         \/ a.unit < b.unit
         \/ a.unit = b.unit /\ a.ph <= b.ph

\* the output columns of Phase 1 and Phase 2 of a row are still as they
\* were before the run
Untouched(r) == outp[r] = InitialOutput

\* C13: for every row Phase 1 runs before Phase 2 of that row and both are
\* over before the next row starts (the calls in the log are in that order,
\* the rows before the next one have their outputs and the others have
\* none); no Phase 3 operation, entity resolution for a group or
\* CreateEncounter, happens before Phase 1 and Phase 2 are over for every
\* row of the batch.
C13_PhaseOrdering ==
    /\ \A i, j \in DOMAIN log : i < j => UnitNotAfter(log[i], log[j])
    /\ \A r \in DOMAIN batch : r \notin RowsDone => Untouched(r)
    /\ \A r \in RowsDone : IF RowTaken(r) THEN outp[r].InsuranceStatus # NaN
                           ELSE outp[r].Error # <<>>
    /\ (\E i \in DOMAIN log : log[i].ph = 3)
          => /\ pc \in {"groups", "done"}
             /\ RowsDone = DOMAIN batch
    /\ pc = "rows" => groups = <<>>

\* C13 witness: the run is over and its log holds, in this order, the
\* patient fetch of row 1, the payment of row 1, the patient fetch of row 2,
\* the payment of row 2 and the CreateEncounter of a group.
C13_Witness ==
    /\ pc = "done"
    /\ \E a, b, c, d, e \in DOMAIN log :
          /\ a < b /\ b < c /\ c < d /\ d < e
          /\ log[a].ph = 1 /\ log[a].unit = 1 /\ log[a].op = "GetPatient"
          /\ log[b].ph = 2 /\ log[b].unit = 1 /\ log[b].op = "CreatePayment"
          /\ log[c].ph = 1 /\ log[c].unit = 2 /\ log[c].op = "GetPatient"
          /\ log[d].ph = 2 /\ log[d].unit = 2 /\ log[d].op = "CreatePayment"
          /\ log[e].ph = 3 /\ log[e].op = "CreateEncounter"


-----------------------------------------------------------------------------
(* C14: rows left out of Phase 3 *)

\* an empty cell, or one that holds nothing but spaces
Blank(v) == IsNa(v) \/ Strip(PyStr(v)) = ""

\* the patient, the day of service, the practice or the patient name of the
\* row is blank
LacksGroupingField(r) ==
    \/ Blank(batch[r].PatientID) \/ Blank(batch[r].DOS)
    \/ Blank(batch[r].Practice) \/ Blank(outp[r].PatientName)

\* the rows of group g as the group holds them
RowsIn(g) == {groups[g].rows[j].n : j \in 1..Len(groups[g].rows)}

\* once the row loop is over: a row that lacks a grouping field is in no
\* group, and every CreateEncounter is issued for a group of rows that lack
\* none, with one service line for each of them
C14_InNoGroup ==
    pc # "rows" =>
        /\ \A r \in DOMAIN batch : LacksGroupingField(r) =>
              /\ \A g \in DOMAIN groups : r \notin RowsIn(g)
              /\ Blank(outp[r].EncounterID)
              /\ Blank(outp[r].ChargeAmount)
              /\ Blank(outp[r].ChargeStatus)
              /\ ClausesOf(r, Phase3Clauses) = {}
        /\ \A i \in CallsOf("CreateEncounter") :
              /\ log[i].unit \in DOMAIN groups
              /\ \A r \in RowsIn(log[i].unit) : ~LacksGroupingField(r)
              /\ Len(log[i].req.ServiceLines) = Cardinality(RowsIn(log[i].unit))

\* a step of Phase 3 leaves the message, the Encounter ID, the Charge Amount
\* and the Charge Status of such a row as they are
C14_LeftAsPhase12 ==
    pc # "rows" =>
        \A r \in DOMAIN batch : LacksGroupingField(r) =>
            /\ outp'[r].Error = outp[r].Error
            /\ outp'[r].EncounterID = outp[r].EncounterID
            /\ outp'[r].ChargeAmount = outp[r].ChargeAmount
            /\ outp'[r].ChargeStatus = outp[r].ChargeStatus

\* C14: a row in which patientId, DOS, practice name or patient name is
\* blank is excluded from Phase 3: it belongs to no group, no
\* CreateEncounter is issued on its behalf, and Phase 3 leaves its message,
\* Encounter ID, Charge Amount and Charge Status exactly as Phase 1/2 left
\* them.
C14_BlankRowsExcluded == []C14_InNoGroup /\ [][C14_LeftAsPhase12]_vars

\* C14 witness: the run is over; the patient of one row was not found, so
\* the row has no patient name: it holds its Phase 1 error and nothing of
\* Phase 3, while the encounter of another row was created.
C14_Witness ==
    /\ pc = "done"
    /\ \E r, q \in DOMAIN batch :
          /\ ~Blank(batch[r].PatientID) /\ ~Blank(batch[r].DOS) /\ ~Blank(batch[r].Practice)
          /\ Blank(outp[r].PatientName)
          /\ Len(outp[r].Error) = 1
          /\ outp[r].Error[1].t = "P1 Error: Patient data not in API resp."
          /\ Blank(outp[r].EncounterID)
          /\ EncounterCreatedRow(outp[q])


-----------------------------------------------------------------------------
(* C15: the groups are the partition of the eligible rows by key *)

\* the key of a row as the sheet holds it: patient, day of service, practice
WrittenKey(r) == <<batch[r].PatientID, batch[r].DOS, batch[r].Practice>>

\* the rows that lack no grouping field
EligibleRows == {r \in DOMAIN batch : ~LacksGroupingField(r)}

\* C15: once the rows are grouped, every eligible row belongs to exactly one
\* group and no other row to any; two eligible rows are in the same group
\* if and only if they have the same (patientId, DOS, practice as written);
\* no group is empty and the number of groups is the number of distinct
\* keys of the eligible rows.
C15_PartitionByGroupKey ==
    pc # "rows" =>
        /\ \A r \in DOMAIN batch :
              Cardinality({g \in DOMAIN groups : r \in RowsIn(g)})
                 = (IF r \in EligibleRows THEN 1 ELSE 0)
        /\ \A r, q \in EligibleRows :
              (\E g \in DOMAIN groups : r \in RowsIn(g) /\ q \in RowsIn(g))
                 <=> WrittenKey(r) = WrittenKey(q)
        /\ \A g \in DOMAIN groups :
              /\ RowsIn(g) # {}
              /\ Len(groups[g].rows) = Cardinality(RowsIn(g))
        /\ Len(groups) = Cardinality({WrittenKey(r) : r \in EligibleRows})

\* C15 witness: the run is over; of three eligible rows two share patient,
\* day and practice and the third has another day: there are 2 groups, one
\* of two rows and one of one row.
C15_Witness ==
    /\ pc = "done"
    /\ Len(batch) = 3
    /\ EligibleRows = {1, 2, 3}
    /\ \E r, q, t \in DOMAIN batch :
          /\ r # q
          /\ WrittenKey(r) = WrittenKey(q)
          /\ batch[t].PatientID = batch[r].PatientID
          /\ batch[t].Practice = batch[r].Practice
          /\ batch[t].DOS # batch[r].DOS
    /\ Len(groups) = 2
    /\ {Len(groups[g].rows) : g \in DOMAIN groups} = {1, 2}


-----------------------------------------------------------------------------
(* C16: names are resolved whatever their case and outer spaces *)

\* two names as written that differ at most in letter case and in leading
\* or trailing whitespace
SameNameAsWritten(a, b) == a = b \/ {a, b} = {"Clinic A", " clinic a "}

\* the practice name, as written, of the unit of work a lookup was issued
\* for: the row of a payment, or the group of an encounter (whose service
\* location has the name of the practice)
WrittenNameOf(e) ==
    IF e.ph = 3 THEN groups[e.unit].key[3] ELSE batch[e.unit].Practice

\* the practice ID of the requests issued for a unit of work
PracticeIdsUsed ==
    {<<WrittenNameOf(log[i]), log[i].req[1]>> : i \in CallsOf("CreatePayment")}
    \cup {<<WrittenNameOf(log[i]), log[i].req.Practice>> : i \in CallsOf("CreateEncounter")}

\* C16: name resolution is normalization-stable: names that differ only in
\* letter case and leading/trailing whitespace share one cache entry in the
\* same context: once the practice (or service location) of one of them was
\* looked up and stored, no lookup is issued for another of them, and the
\* requests issued for them carry the same ID.
C16_NormalizationStable ==
    /\ \A i, j \in DOMAIN log :
          (/\ i < j
           /\ log[i].fn \in {"get_practice_id_by_name", "get_service_location_id_by_name"}
           /\ log[j].fn = log[i].fn
           /\ SameNameAsWritten(WrittenNameOf(log[i]), WrittenNameOf(log[j])))
          => ~Stored(log[i])
    /\ \A u, v \in PracticeIdsUsed : SameNameAsWritten(u[1], v[1]) => u[2] = v[2]
    /\ \A i, j \in CallsOf("CreateEncounter") :
          SameNameAsWritten(WrittenNameOf(log[i]), WrittenNameOf(log[j]))
             => log[i].req.ServiceLocation = log[j].req.ServiceLocation

\* C16 witness: the run is over; the encounters of two groups were sent, one
\* for the practice written "Clinic A" and one for " clinic a ", both with
\* practice 7 and service location 70, and the log holds one GetPractices
\* and one GetServiceLocations.
C16_Witness ==
    /\ pc = "done"
    /\ \E i, j \in CallsOf("CreateEncounter") :
          /\ WrittenNameOf(log[i]) = "Clinic A"
          /\ WrittenNameOf(log[j]) = " clinic a "
          /\ log[i].req.Practice = "7" /\ log[j].req.Practice = "7"
          /\ log[i].req.ServiceLocation = "70" /\ log[j].req.ServiceLocation = "70"
    /\ Cardinality(CallsOf("GetPractices")) = 1
    /\ Cardinality(CallsOf("GetServiceLocations")) = 1


-----------------------------------------------------------------------------
(* C17: the caches belong to one invocation *)

\* the cache of a resolver in a frame
CacheOfResolver(f, fn) ==
    CASE fn = "get_practice_id_by_name" -> f.caches.practice
      [] fn = "get_service_location_id_by_name" -> f.caches.service_location
      [] fn = "get_provider_id_by_name_phase3" -> f.caches.provider
      [] fn = "get_referring_provider_details_for_encounter" -> f.caches.referring
      [] OTHER -> f.caches.case

\* the key of a cache entry as the log holds the key of its lookup
LoggedKey(fn, k) == IF fn = "get_practice_id_by_name" THEN <<k>> ELSE k

\* every entry of the caches of the frame was written by a lookup of the
\* same invocation: its key is the key of a lookup of its own log
OwnEntriesOnly(f) ==
    \A fn \in Resolvers :
        \A k \in DOMAIN CacheOfResolver(f, fn) :
            \E i \in DOMAIN f.log : f.log[i].fn = fn /\ f.log[i].key = LoggedKey(fn, k)

\* every ID of a request of the frame was resolved in the same invocation:
\* a lookup of the practice that did not fail is before it in its own log
OwnIdsOnly(f) ==
    \A j \in DOMAIN f.log :
        f.log[j].op \in {"CreatePayment", "CreateEncounter"}
        => \E i \in 1..(j - 1) : f.log[i].op = "GetPractices" /\ ~Failed(f.log[i].ans)

\* an invocation that has not made a step has empty caches
StartsEmpty(f) ==
    (f.pc = "rows" /\ f.idx = 1) =>
        \A fn \in Resolvers : DOMAIN CacheOfResolver(f, fn) = {}

\* C17: caches are per run: each invocation starts with empty caches, and
\* when two invocations are interleaved an entry written by one is never
\* read by the other: the caches of each hold only what its own lookups
\* wrote, and the IDs of its requests come from its own lookups.
C17_CachesPerRun ==
    /\ StartsEmpty(Frame) /\ OwnEntriesOnly(Frame) /\ OwnIdsOnly(Frame)
    /\ peer.pc # "none" =>
          StartsEmpty(peer) /\ OwnEntriesOnly(peer) /\ OwnIdsOnly(peer)

\* C17 witness: two invocations are both in the middle of their runs, after
\* their rows and before their summaries; one resolved the practice
\* "clinic a" to 7 and the other holds another result for the same key.
C17_Witness ==
    /\ pc = "groups" /\ peer.pc = "groups"
    /\ "clinic a" \in DOMAIN caches.practice
    /\ "clinic a" \in DOMAIN peer.caches.practice
    /\ caches.practice["clinic a"] = "7"
    /\ peer.caches.practice["clinic a"] # "7"
    /\ \E i \in DOMAIN log : log[i].op = "CreateEncounter" /\ log[i].req.Practice = "7"


-----------------------------------------------------------------------------
(* C18: the policy Phase 1 selects *)

\* the patient fetches of Phase 1 that returned a patient, for a row whose
\* day of service is a date
FetchedWithDos ==
    {i \in DOMAIN log :
        /\ log[i].ph = 1 /\ log[i].op = "GetPatient"
        /\ ~Failed(log[i].ans) /\ log[i].ans.data # <<>>
        /\ ParseDate(Strip(PyStr(batch[log[i].unit].DOS))).k = "num"}

\* the primary case of the cases, the first case when none is primary
PrimaryCaseOf(cases) ==
    IF \E i \in 1..Len(cases) : cases[i].IsPrimaryCase = "true"
    THEN cases[CHOOSE i \in 1..Len(cases) :
                  /\ cases[i].IsPrimaryCase = "true"
                  /\ \A j \in 1..(i - 1) : cases[j].IsPrimaryCase # "true"]
    ELSE cases[1]

\* active on the day: start date present and <= DOS and (no end date or
\* end date >= DOS), or neither start nor end date present
ActiveOn(policy, dos) ==
    LET start == policy.EffectiveStartDate
        end == policy.EffectiveEndDate
    IN \/ /\ start # None
          /\ ParseDate(start).v <= dos
          /\ (end = None \/ ParseDate(end).v >= dos)
       \/ start = None /\ end = None

\* C18: with a valid DOS, Phase 1 scans the policies of the primary case
\* (first case when none is primary) in returned order and selects the
\* first policy that is active on DOS: the row gets the plan name and the
\* number of that policy with status Active, and no insurance when no
\* policy of the case is active.
C18_FirstActivePolicy ==
    \A i \in FetchedWithDos :
        LET r == log[i].unit
            dos == ParseDate(Strip(PyStr(batch[r].DOS))).v
            cases == log[i].ans.data[1].Cases
            policies == PrimaryCaseOf(cases).Policies
            act == {j \in 1..Len(policies) : ActiveOn(policies[j], dos)}
            first == CHOOSE j \in act : \A k \in act : j <= k
        IN cases # <<>> =>
              IF act # {}
              THEN /\ outp[r].InsuranceStatus = "Active"
                   /\ outp[r].Insurance = policies[first].PlanName
                   /\ outp[r].InsuranceID = policies[first].Number
              ELSE /\ outp[r].InsuranceStatus \in
                         {"No Primary Active Ins. Found", "No Ins. Policies on Primary Case"}
                   /\ outp[r].Insurance = None
                   /\ outp[r].InsuranceID = None

\* C18 witness: the primary case of the fetched patient is the second case
\* and holds, in this order, a policy with an end date only, one that ended
\* on 2024-01-05, one open since 2024-01-06 and one without dates; the row's
\* DOS is 2024-01-06 and its insurance is the third policy, Active.
C18_Witness ==
    \E i \in FetchedWithDos :
        /\ log[i].ans.data[1] = PatientWithDatedPolicies
        /\ batch[log[i].unit].DOS = "2024-01-06"
        /\ outp[log[i].unit].Insurance = "Plan Late"
        /\ outp[log[i].unit].InsuranceID = "L1"
        /\ outp[log[i].unit].InsuranceStatus = "Active"

\* the same patient for a DOS of 2024-01-05: the policy that ends on that
\* day is selected
C18_WitnessEarly ==
    \E i \in FetchedWithDos :
        /\ log[i].ans.data[1] = PatientWithDatedPolicies
        /\ batch[log[i].unit].DOS = "2024-01-05"
        /\ outp[log[i].unit].Insurance = "Plan Early"
        /\ outp[log[i].unit].InsuranceStatus = "Active"


-----------------------------------------------------------------------------
(* C19: the insurance statuses of Phase 1 *)

\* the statuses of the stated vocabulary, as the code writes them: Active,
\* No Primary Active Insurance Found, No Insurance Policies on Case, No Case
\* Data, DOS Missing, Invalid DOS, Patient Not Found, and the API, Auth and
\* System error markers
StatedStatuses ==
    {"Active", "No Primary Active Ins. Found", "No Ins. Policies on Primary Case",
     "No Case Data for Ins. Check", "DOS Missing for Ins Check", "Invalid DOS for Check",
     "Patient Not Found", "API Error (Patient)", "API Auth Error (Patient)",
     "SOAP Error (Patient)", "Sys Err(Pt)"}

\* the statuses Phase 1 returns: a missing or unreadable DOS shows as the
\* skipped check, and the patient ID has two statuses of its own
ReturnedStatuses ==
    {"Active", "No Primary Active Ins. Found", "No Ins. Policies on Primary Case",
     "No Case Data for Ins. Check", "Ins. Check Skipped (No Valid DOS)",
     "Patient Not Found", "Patient ID Missing", "Invalid Patient ID",
     "API Error (Patient)", "API Auth Error (Patient)", "SOAP Error (Patient)",
     "Sys Err(Pt)"}

\* patient IDs and days of service handed to Phase 1
Phase1PatientIds == {"100", "abc", "nan", " ", "", NaN, None}
Phase1DaysOfService == {"2024-01-05", "2024-01-06", "bad date", "nan", " ", "", NaN, None}

\* the statuses of the results of Phase 1 for every input, with the remote
\* answers of the state
StatusesOfPhase1 ==
    {r.ret.FetchedInsuranceStatus :
        r \in UNION {phase1_fetch_patient_and_insurance(
                        pid, dos, World(caches, log, faults), Ctx(1, 1))
                     : pid \in Phase1PatientIds, dos \in Phase1DaysOfService}}

\* C19 as stated: every result of phase1_fetch_patient_and_insurance has an
\* insurance status of the stated vocabulary.
C19_StatusInStatedVocabulary ==
    /\ StatusesOfPhase1 \subseteq StatedStatuses
    /\ \A r \in RowsDone : RowTaken(r) => outp[r].InsuranceStatus \in StatedStatuses

\* C19 amended: every result of phase1_fetch_patient_and_insurance, for
\* every input and every remote response, has an insurance status from the
\* fixed vocabulary Active, No Primary Active Ins. Found, No Ins. Policies
\* on Primary Case, No Case Data for Ins. Check, Ins. Check Skipped (No
\* Valid DOS), Patient Not Found, Patient ID Missing, Invalid Patient ID, or
\* an API / Auth / SOAP / System error marker; the status of every row the
\* run fetched is one of them.
C19_StatusInVocabulary ==
    /\ StatusesOfPhase1 \subseteq ReturnedStatuses
    /\ \A r \in RowsDone : RowTaken(r) => outp[r].InsuranceStatus \in ReturnedStatuses

\* C19 witness: Phase 1 is over for a row with an empty patient cell, whose
\* status is Invalid Patient ID, and Phase 1 returns Patient ID Missing for
\* a patient ID of spaces and the skipped check for a DOS that cannot be
\* read.
C19_Witness ==
    /\ \E r \in RowsDone :
          /\ IsNa(batch[r].PatientID)
          /\ outp[r].InsuranceStatus = "Invalid Patient ID"
    /\ {"Patient ID Missing", "Ins. Check Skipped (No Valid DOS)"} \subseteq StatusesOfPhase1


-----------------------------------------------------------------------------
(* C20: Phase 1 for a row without a usable DOS *)

\* the patient ID of the row is a number, so that Phase 1 reaches the fetch
HasPatientNumber(r) ==
    RowTaken(r) /\ ParseInt(Strip(PyStr(batch[r].PatientID))).k = "num"

\* the DOS cell of the row is empty, or holds spaces only
DosAbsent(r) == IsNa(batch[r].DOS) \/ Strip(PyStr(batch[r].DOS)) = ""

\* the DOS cell of the row holds a text that is no date
DosUnparseable(r) ==
    /\ ~DosAbsent(r)
    /\ ParseDate(Strip(PyStr(batch[r].DOS))).k = ValueError

\* Phase 1 of the row fetched the patient once, the row carries the name and
\* the date of birth of every patient the fetch returned, and no insurance
Phase1WithoutInsuranceCheck(r) ==
    /\ \E i \in CallsIn(1, r) : log[i].op = "GetPatient"
    /\ \A i \in CallsIn(1, r) :
          log[i].op = "GetPatient" /\ ~Failed(log[i].ans) /\ log[i].ans.data # <<>> =>
             /\ outp[r].PatientName =
                   Strip(log[i].ans.data[1].FirstName \o " " \o log[i].ans.data[1].LastName)
             /\ outp[r].DOB = FormatDay(log[i].ans.data[1].DOB)
             /\ outp[r].InsuranceStatus = "Ins. Check Skipped (No Valid DOS)"
    /\ outp[r].Insurance = None
    /\ outp[r].InsuranceID = None
    /\ outp[r].InsuranceStatus # "Active"

\* C20 as stated: when the DOS of a row is absent or unparseable, Phase 1
\* still fetches the patient and returns the name and date of birth, and
\* skips the insurance check: no policy is selected and the insurance name
\* and insurance ID stay empty.
C20_NoInsuranceWithoutDos ==
    \A r \in RowsDone :
        HasPatientNumber(r) /\ (DosAbsent(r) \/ DosUnparseable(r))
            => Phase1WithoutInsuranceCheck(r)

\* C20 witness: Phase 1 is over for a row whose DOS cell is empty; the
\* patient was fetched and the row carries the patient's name, a selected
\* policy and the status Active.
C20_Witness ==
    \E r \in RowsDone :
        /\ HasPatientNumber(r)
        /\ batch[r].DOS = NaN
        /\ \E i \in CallsIn(1, r) : log[i].op = "GetPatient"
        /\ outp[r].PatientName = "Pat One"
        /\ outp[r].Insurance = "Plan P"
        /\ outp[r].InsuranceStatus = "Active"

\* C20, what the code keeps: the insurance check is skipped for a row whose
\* DOS cell holds spaces only or a text that is no date.
C20_SkippedWhenBlankTextOrUnreadable ==
    \A r \in RowsDone :
        HasPatientNumber(r) /\ batch[r].DOS # NaN /\ (DosAbsent(r) \/ DosUnparseable(r))
            => Phase1WithoutInsuranceCheck(r)

\* a row of spaces for a DOS and a row of an unreadable DOS, both with a
\* fetched patient and the insurance check skipped
C20_WitnessSkipped ==
    \E r \in RowsDone :
        /\ HasPatientNumber(r)
        /\ batch[r].DOS # NaN
        /\ DosAbsent(r) \/ DosUnparseable(r)
        /\ outp[r].PatientName = "Pat One"
        /\ outp[r].DOB = "1980-02-03"
        /\ outp[r].InsuranceStatus = "Ins. Check Skipped (No Valid DOS)"


-----------------------------------------------------------------------------
(* C21: provider resolution *)

\* the lookups of get_provider_id_by_name_phase3 that the service answered
\* with a list of providers
ProviderLookups ==
    {i \in DOMAIN log :
        /\ log[i].fn = "get_provider_id_by_name_phase3"
        /\ ~Failed(log[i].ans) /\ log[i].ans.data # <<>>}

\* the name a lookup searched: the rendering or scheduling provider cell of
\* the first row of its group
QueryOfLookup(i) ==
    LET first == groups[log[i].unit].rows[1].row
    IN CHOOSE q \in {Strip(PyStr(first.RenderingProvider)),
                     Strip(PyStr(first.SchedulingProvider))} : Lower(q) = log[i].key[2]

\* what the run took for the result of a lookup
ResultOfLookup(i) == caches.provider[log[i].key]

\* the tokens of a name without the credential and organisation tokens
TermsOf(name) ==
    LET kept == SelectSeq(NameTokens(name), LAMBDA t : t \notin CredentialTokens /\ t # "")
    IN IF kept = <<>> THEN <<Lower(name)>> ELSE kept

\* the active providers of an acceptable type of a list, by position
CandidatesOf(list) ==
    {c \in 1..Len(list) :
        /\ Lower(list[c].Active) = "true"
        /\ Lower(Strip(list[c].Type)) \in ACCEPTABLE_RS_TYPES
        /\ Strip(list[c].FullName) # "" /\ Strip(list[c].ID) # ""}

\* the candidates whose full name is the query, letter case aside
ExactOf(list, q) ==
    {c \in CandidatesOf(list) : Lower(Strip(list[c].FullName)) = Lower(q)}

\* the number of query tokens present in the tokens of candidate c
MatchCount(list, q, c) ==
    LET mine == TermsOf(q)
        theirs == TermsOf(Strip(list[c].FullName))
    IN Cardinality({j \in 1..Len(mine) : \E k \in 1..Len(theirs) : theirs[k] = mine[j]})

\* the candidates whose score, the fraction of query tokens present, is at
\* least 0.80
ScoringOf(list, q) ==
    {c \in CandidatesOf(list) : 5 * MatchCount(list, q, c) >= 4 * Len(TermsOf(q))}

\* the candidates that hold every query token
CoveringOf(list, q) ==
    {c \in CandidatesOf(list) : MatchCount(list, q, c) = Len(TermsOf(q))}

FirstOf(S) == CHOOSE c \in S : \A d \in S : c <= d

\* C21 as stated: an exact match is returned when there is one; otherwise
\* the highest-scoring candidate whose score is >= 0.80 is returned, and
\* "not found" when no candidate reaches 0.80.
C21_HighestScoreFrom80 ==
    \A i \in ProviderLookups :
        LET list == log[i].ans.data
            q == QueryOfLookup(i)
        IN IF ExactOf(list, q) # {}
           THEN \E c \in ExactOf(list, q) : ResultOfLookup(i) = Strip(list[c].ID)
           ELSE IF ScoringOf(list, q) # {}
           THEN \E c \in ScoringOf(list, q) :
                   /\ \A d \in ScoringOf(list, q) :
                         MatchCount(list, q, d) <= MatchCount(list, q, c)
                   /\ ResultOfLookup(i) = Strip(list[c].ID)
           ELSE ResultOfLookup(i) = None

\* C21 amended: provider resolution returns the ID of the first active
\* provider of an acceptable type whose full name equals the query
\* case-insensitively when such a provider exists; otherwise it returns the
\* first active acceptable-type candidate, in returned order, whose tokens
\* hold every query token (credential and organisational tokens stripped
\* from both names), and "not found" when no candidate holds them all: a
\* candidate with 80% or more, but not all, of the query tokens is not
\* accepted.
C21_ExactElseFullCoverage ==
    \A i \in ProviderLookups :
        LET list == log[i].ans.data
            q == QueryOfLookup(i)
        IN ResultOfLookup(i) =
              IF ExactOf(list, q) # {} THEN Strip(list[FirstOf(ExactOf(list, q))].ID)
              ELSE IF CoveringOf(list, q) # {}
              THEN Strip(list[FirstOf(CoveringOf(list, q))].ID)
              ELSE None

\* C21 witness: the rendering provider "Ann Bea Cy Di Ed" was looked up, the
\* answer holds the active physician "Ann Bea Cy Di" with four of the five
\* tokens and no candidate with all five, and the result is "not found": the
\* group ends without an encounter.
C21_Witness ==
    \E i \in ProviderLookups :
        /\ QueryOfLookup(i) = "Ann Bea Cy Di Ed"
        /\ ExactOf(log[i].ans.data, "Ann Bea Cy Di Ed") = {}
        /\ ScoringOf(log[i].ans.data, "Ann Bea Cy Di Ed") # {}
        /\ CoveringOf(log[i].ans.data, "Ann Bea Cy Di Ed") = {}
        /\ ResultOfLookup(i) = None
        /\ log[i].unit \in GroupsDone
        /\ CallsOf("CreateEncounter") = {}

\* a query in another order and with a credential resolves to the first
\* candidate that holds its tokens
C21_WitnessCoverage ==
    \E i \in ProviderLookups :
        /\ QueryOfLookup(i) = "Ann Bea"
        /\ ExactOf(log[i].ans.data, "Ann Bea") = {}
        /\ Cardinality(CoveringOf(log[i].ans.data, "Ann Bea")) = 2
        /\ ResultOfLookup(i) = "504"

\* an exact match that comes after a covering candidate is the result
C21_WitnessExact ==
    \E i \in ProviderLookups :
        /\ QueryOfLookup(i) = "Di Cy Bea Ann PA"
        /\ FirstOf(CoveringOf(log[i].ans.data, "Di Cy Bea Ann PA"))
              < FirstOf(ExactOf(log[i].ans.data, "Di Cy Bea Ann PA"))
        /\ ResultOfLookup(i) = "505"


-----------------------------------------------------------------------------
(* C22: practice resolution *)

\* the lookups of get_practice_id_by_name that the service answered with a
\* list of practices
PracticeLookups ==
    {i \in DOMAIN log :
        /\ log[i].fn = "get_practice_id_by_name"
        /\ ~Failed(log[i].ans) /\ log[i].ans.data # <<>>}

\* the practices of a list whose name is the searched name, letter case and
\* surrounding spaces aside, by activity
NamedPractices(list, norm, active) ==
    {c \in 1..Len(list) :
        /\ Lower(Strip(list[c].PracticeName)) = norm
        /\ Strip(list[c].ID) # ""
        /\ (Lower(list[c].Active) = "true") = active}

\* C22: practice resolution returns the ID of an exact-name active practice
\* whenever the answer holds one, wherever it stands among the inactive
\* practices of that name; the ID of an inactive practice of that name when
\* no active one is in the answer; and "not found" when the answer holds no
\* practice of that name.
C22_ActivePracticePreferred ==
    \A i \in PracticeLookups :
        LET list == log[i].ans.data
            norm == log[i].key[1]
            result == caches.practice[norm]
        IN IF NamedPractices(list, norm, TRUE) # {}
           THEN \E c \in NamedPractices(list, norm, TRUE) : result = Strip(list[c].ID)
           ELSE IF NamedPractices(list, norm, FALSE) # {}
           THEN \E c \in NamedPractices(list, norm, FALSE) : result = Strip(list[c].ID)
           ELSE result = None

\* C22 witness: the answer to a lookup holds an inactive practice of the
\* name before the active one and another after it, and the result is the
\* ID of the active practice.
C22_Witness ==
    \E i \in PracticeLookups :
        LET list == log[i].ans.data
            norm == log[i].key[1]
        IN \E a \in NamedPractices(list, norm, TRUE) :
              /\ \E b \in NamedPractices(list, norm, FALSE) : b < a
              /\ \E b \in NamedPractices(list, norm, FALSE) : a < b
              /\ caches.practice[norm] = Strip(list[a].ID)

\* only inactive practices of the name: the result is the ID of one of them
C22_WitnessInactive ==
    \E i \in PracticeLookups :
        /\ NamedPractices(log[i].ans.data, log[i].key[1], TRUE) = {}
        /\ NamedPractices(log[i].ans.data, log[i].key[1], FALSE) # {}
        /\ caches.practice[log[i].key[1]] = "9"

\* no practice of the name in an answer that holds practices: not found
C22_WitnessNoMatch ==
    \E i \in PracticeLookups :
        /\ NamedPractices(log[i].ans.data, log[i].key[1], TRUE) = {}
        /\ NamedPractices(log[i].ans.data, log[i].key[1], FALSE) = {}
        /\ caches.practice[log[i].key[1]] = None


-----------------------------------------------------------------------------
(* C23: the optional providers of a group *)

\* the names of the scheduling and the referring provider of group g, "" for
\* a group that names none
SchedulingName(g) == Strip(PyStr(groups[g].rows[1].row.SchedulingProvider))
ReferringName(g) ==
    LET name == Strip(PyStr(groups[g].rows[1].row.ReferringProvider))
    IN IF Lower(name) = "nan" THEN "" ELSE name

\* the scheduling provider ID and the referring provider details of group g
\* as the caches hold them, None and NoDetails when not resolved
SchedulingOf(c, g) ==
    LET k == <<PracticeOf(c, g), Lower(SchedulingName(g))>>
    IN IF SchedulingName(g) # "" /\ k \in DOMAIN c.provider THEN c.provider[k] ELSE None
ReferringOf(c, g) ==
    LET k == <<PracticeOf(c, g), Lower(ReferringName(g))>>
    IN IF ReferringName(g) # "" /\ k \in DOMAIN c.referring THEN c.referring[k]
       ELSE NoDetails

\* everything an encounter requires of group g is there: the patient's name,
\* the four resolved IDs, a day of service that is a date and a valid
\* service line for every row
RequiredComplete(out, c, g) ==
    /\ Strip(PyStr(out[groups[g].rows[1].n].PatientName)) # ""
    /\ ParseInt(Strip(groups[g].key[1])).k = "num"
    /\ UnresolvedMessage(c, g) = ""
    /\ format_datetime_for_api_phase3(groups[g].key[2]) # None
    /\ \A j \in 1..Len(groups[g].rows) :
          create_service_line_payload_phase3(groups[g].rows[j].row) # NoLine

\* the step that processes a group with everything required: CreateEncounter
\* is invoked once for it; the request carries the scheduling provider and
\* the referring provider that resolved and leaves out the one that did not
C23_SubmittedWithoutOptional ==
    (pc = "groups" /\ idx <= Len(groups) /\ idx' = idx + 1
     /\ RequiredComplete(outp, caches', idx))
    => \E i \in DOMAIN log' \ DOMAIN log :
          /\ log'[i].op = "CreateEncounter" /\ log'[i].unit = idx
          /\ log'[i].req.SchedulingProvider = SchedulingOf(caches', idx)
          /\ log'[i].req.ReferringProvider = ReferringPayload(ReferringOf(caches', idx))
          /\ \A j \in (DOMAIN log' \ DOMAIN log) \ {i} : log'[j].op # "CreateEncounter"

\* C23: failure to resolve the scheduling provider or the referring
\* provider does not abort the group: when all required entities resolve
\* and all service lines are valid, CreateEncounter is still invoked, with
\* the unresolved optional provider left out of the request.
C23_OptionalProvidersDoNotAbort == [][C23_SubmittedWithoutOptional]_vars

\* C23 witness: a processed group names a scheduling provider and a
\* referring provider, neither resolved; CreateEncounter was invoked with a
\* request that carries neither and the rows of the group have the
\* encounter.
C23_Witness ==
    \E g \in GroupsDone :
        /\ SchedulingName(g) = "Dr Gone" /\ ReferringName(g) = "Ann Zed"
        /\ SchedulingOf(caches, g) = None /\ ReferringOf(caches, g) = NoDetails
        /\ \E i \in Submissions(g) :
              /\ log[i].req.SchedulingProvider = None
              /\ log[i].req.ReferringProvider = NoDetails
              /\ log[i].req.RenderingProvider = "501"
        /\ \A r \in Owners(g) : HasClause(outp[r], "Encounter #%s Created.")

\* a group whose optional providers both resolve: the request carries them
C23_WitnessResolved ==
    \E g \in GroupsDone : \E i \in Submissions(g) :
        /\ log[i].req.SchedulingProvider = "502"
        /\ log[i].req.ReferringProvider = [NPI |-> "1234567890", ProviderID |-> None]

\* a lookup of the scheduling provider that the service answered with a
\* failure: the request is sent without the provider
C23_WitnessFailedLookup ==
    \E g \in GroupsDone : \E i \in Submissions(g) : \E e \in CallsIn(3, g) :
        /\ log[e].fn = "get_provider_id_by_name_phase3" /\ Failed(log[e].ans)
        /\ log[e].key[2] = Lower(SchedulingName(g)) /\ e < i
        /\ log[i].req.SchedulingProvider = None


-----------------------------------------------------------------------------
(* C24: the follow-up fetches of a created encounter *)

\* the CreateEncounter calls of processed groups that returned a positive
\* encounter ID
CreatedCalls ==
    {i \in CallsOf("CreateEncounter") :
        log[i].unit \in GroupsDone /\ EncounterResponseCreated(log[i].ans)}

\* the follow-up fetch `op` of group g failed: the service answered it with
\* a failure or with no data
FetchFailed(g, op) ==
    \E e \in CallsIn(3, g) :
        log[e].op = op /\ (Failed(log[e].ans) \/ log[e].ans.data = <<>>)

\* the clause "Encounter #<id> Created." of a row
CreatedClause(out, id) ==
    CHOOSE j \in 1..Len(out.Error) :
        out.Error[j].t = "Encounter #%s Created." /\ out.Error[j].a = id

\* the warning suffixes a sequence of suffixes holds, by their first words
HasSuffix(sfx, words) ==
    \E k \in 1..Len(sfx) : SubSeq(sfx[k], 1, Len(words)) = words

\* every result of the status fetch and of the charge fetch, for every
\* answer of the service
FetchResults ==
    LET answers(data) == Failures(<<>>) \cup {Answer(<<>>), Answer(data)}
    IN [status |-> {EncounterDetailsOutcome(a) : a \in answers(<<[EncounterStatus |-> "1"]>>)},
        charge |-> {ChargesOutcome(a, "100", "1001") : a \in answers(ChargesOf("1001", "100"))}]

\* the result of a created encounter keeps the ID and the created message
\* for every pair of fetch results, both failed included
CreatedResultKept ==
    \A s \in FetchResults.status : \A c \in FetchResults.charge :
        LET res == EncounterCreatedOutcome("1001", s, c)
        IN /\ res.EncounterID = "1001"
           /\ res.SimpleMessage.t = "Encounter #%s Created."
           /\ res.SimpleMessage.a = "1001"
           /\ (s.RawEncounterStatusCode = None) =
                 (res.ChargeStatus = "Status Fetch Error")
           /\ (s.RawEncounterStatusCode = None) =
                 HasSuffix(res.SimpleMessage.sfx, " (Status Warn: ")
           /\ (c.TotalChargeAmount = "Error") = (res.ChargeAmount = "Charge Fetch Error")
           /\ (c.TotalChargeAmount = "Error") =
                 HasSuffix(res.SimpleMessage.sfx, " (Charge Warn: ")

\* C24: once CreateEncounter has returned a positive encounter ID for a
\* group, a failure of the status fetch or of the charge fetch never
\* retracts the created status: the rows of the group keep the Encounter ID
\* and the "Encounter #<id> Created" message, and the failure only appends
\* a warning suffix to it and sets the status or charge field to an error
\* marker.
C24_CreatedNeverRetracted ==
    /\ CreatedResultKept
    /\ \A i \in CreatedCalls : \A r \in Owners(log[i].unit) :
          LET id == ToString(log[i].ans.data)
              g == log[i].unit
          IN /\ outp[r].EncounterID = id
             /\ \E j \in 1..Len(outp[r].Error) :
                   outp[r].Error[j].t = "Encounter #%s Created." /\ outp[r].Error[j].a = id
             /\ FetchFailed(g, "GetEncounterDetails") =
                   (outp[r].ChargeStatus = "Status Fetch Error")
             /\ FetchFailed(g, "GetEncounterDetails") =
                   HasSuffix(outp[r].Error[CreatedClause(outp[r], id)].sfx, " (Status Warn: ")
             /\ (\E e \in CallsIn(3, g) : log[e].op = "GetCharges" /\ Failed(log[e].ans)) =
                   (outp[r].ChargeAmount = "Charge Fetch Error")
             /\ (\E e \in CallsIn(3, g) : log[e].op = "GetCharges" /\ Failed(log[e].ans)) =
                   HasSuffix(outp[r].Error[CreatedClause(outp[r], id)].sfx, " (Charge Warn: ")

\* C24 witness: CreateEncounter returned an encounter ID for a processed
\* group and the status fetch failed: the rows have the ID, the created
\* message with a status warning, the status marker and the charge amount.
C24_Witness ==
    \E i \in CreatedCalls : \A r \in Owners(log[i].unit) :
        /\ FetchFailed(log[i].unit, "GetEncounterDetails")
        /\ outp[r].EncounterID = ToString(log[i].ans.data)
        /\ HasClause(outp[r], "Encounter #%s Created.")
        /\ outp[r].ChargeStatus = "Status Fetch Error"
        /\ outp[r].ChargeAmount = "125.00"

\* the charge fetch failed: created message with a charge warning
C24_WitnessCharge ==
    \E i \in CreatedCalls : \A r \in Owners(log[i].unit) :
        /\ \E e \in CallsIn(3, log[i].unit) : log[e].op = "GetCharges" /\ Failed(log[e].ans)
        /\ outp[r].EncounterID = ToString(log[i].ans.data)
        /\ HasClause(outp[r], "Encounter #%s Created.")
        /\ outp[r].ChargeAmount = "Charge Fetch Error"


-----------------------------------------------------------------------------
(* C25: the charge total of a created encounter *)

\* the charge queries of processed groups
ChargeQueries == {i \in CallsOf("GetCharges") : log[i].unit \in GroupsDone}

\* the returned charge lines of the target patient and encounter
MatchingLines(list, pid, enc) ==
    {j \in 1..Len(list) :
        Strip(list[j].PatientID) = Strip(pid) /\ Strip(list[j].EncounterID) = Strip(enc)}

\* the amount of a charge line in hundredths, 0 for a line without a number
AmountOf(line) ==
    IF line.TotalCharges # None /\ ParseFloat(Strip(PyStr(line.TotalCharges))).k = "num"
    THEN ParseFloat(Strip(PyStr(line.TotalCharges))).v ELSE 0

\* the sum of the amounts of the lines S of a list
RECURSIVE TotalOf(_, _)
TotalOf(list, S) ==
    IF S = {} THEN 0
    ELSE LET j == CHOOSE x \in S : TRUE
         IN AmountOf(list[j]) + TotalOf(list, S \ {j})

\* the amount the claim gives for an answer of the charge query
StatedAmount(ans, pid, enc) ==
    IF Failed(ans) THEN "Error"
    ELSE IF MatchingLines(ans.data, pid, enc) = {} THEN "0.00"
    ELSE FormatMoney(TotalOf(ans.data, MatchingLines(ans.data, pid, enc)))

\* C25: the charge total of a created encounter is the sum of the
\* TotalCharges of exactly those returned charge lines whose patient ID and
\* encounter ID both equal the target's; "0.00" when no returned line
\* matches and the query reported no error; "Error" when the query reports
\* an API error, an authorisation error or a fault.  The rows of the group
\* show the total, and the marker "Charge Fetch Error" for "Error".
C25_ChargeTotal ==
    \A i \in ChargeQueries :
        LET g == log[i].unit
            pid == groups[g].key[1]
            enc == log[i].key[1]
            amount == StatedAmount(log[i].ans, pid, enc)
        IN /\ ChargesOutcome(log[i].ans, pid, enc).TotalChargeAmount = amount
           /\ \A r \in Owners(g) :
                 outp[r].ChargeAmount =
                    IF amount = "Error" THEN "Charge Fetch Error" ELSE amount

\* C25 witness: the answer to the charge query of a processed group holds
\* two lines of the encounter with amounts, lines of the encounter without
\* a number, a line of another encounter and a line of another patient; the
\* rows of the group show the sum of the two, 125.00.
C25_Witness ==
    \E i \in ChargeQueries :
        LET g == log[i].unit
            list == log[i].ans.data
            match == MatchingLines(list, groups[g].key[1], log[i].key[1])
        IN /\ ~Failed(log[i].ans)
           /\ Cardinality({j \in match : AmountOf(list[j]) > 0}) = 2
           /\ \E j \in match : list[j].TotalCharges = None
           /\ \E j \in DOMAIN list \ match : list[j].EncounterID = log[i].key[1]
           /\ \E j \in DOMAIN list \ match : list[j].PatientID = groups[g].key[1]
           /\ \A r \in Owners(g) : outp[r].ChargeAmount = "125.00"

\* lines, none of the encounter, and no error: 0.00
C25_WitnessNoMatch ==
    \E i \in ChargeQueries :
        /\ ~Failed(log[i].ans) /\ log[i].ans.data # <<>>
        /\ MatchingLines(log[i].ans.data, groups[log[i].unit].key[1], log[i].key[1]) = {}
        /\ \A r \in Owners(log[i].unit) : outp[r].ChargeAmount = "0.00"

\* a query that reports an error: Error, shown as Charge Fetch Error
C25_WitnessError ==
    \E i \in ChargeQueries :
        /\ log[i].ans.isError
        /\ ChargesOutcome(log[i].ans, groups[log[i].unit].key[1],
                          log[i].key[1]).TotalChargeAmount = "Error"
        /\ \A r \in Owners(log[i].unit) : outp[r].ChargeAmount = "Charge Fetch Error"


-----------------------------------------------------------------------------
(* C26: place of service *)

KnownPosCodes == {"02", "10", "11", "12", "21", "22", "23", "24"}

\* the place-of-service code and the encounter mode of the first row of the
\* group a CreateEncounter call was issued for, as the sheet writes them
PosCellOf(i) == groups[log[i].unit].rows[1].row.POS
ModeCellOf(i) == groups[log[i].unit].rows[1].row.EncounterMode

\* the code of a cell without the spaces around it, "" for an empty cell
WrittenCode(cell) == IF IsNa(cell) THEN "" ELSE Strip(PyStr(cell))

\* the encounter mode names telehealth, or the office
NamesTelehealth(cell) ==
    /\ ~IsNa(cell)
    /\ \E word \in {"telehealth", "tele health"} : ModeHolds(Lower(Strip(PyStr(cell))), word)
NamesOffice(cell) ==
    /\ ~IsNa(cell)
    /\ \E word \in {"in office", "office", "inoffice"} :
          ModeHolds(Lower(Strip(PyStr(cell))), word)

\* the place of service the precedence gives for two cells
PlaceByPrecedence(pos, mode) ==
    IF WrittenCode(pos) \in KnownPosCodes
    THEN PosPayload(WrittenCode(pos), known_pos_codes_with_names[WrittenCode(pos)])
    ELSE IF NamesTelehealth(mode)
    THEN PosPayload("10", "Telehealth Provided in Patient's Home")
    ELSE PosPayload("11", "Office")

\* C26: place of service is total and follows a fixed precedence: a POS code
\* of the known codes (02, 10, 11, 12, 21, 22, 23, 24) is used verbatim with
\* its canonical name; otherwise the place is inferred from the encounter
\* mode (telehealth, else in-office); when that fails it is Office, code 11.
\* For every input the resulting code is one of the known codes.
C26_PlaceOfServicePrecedence ==
    /\ \A pos \in PosCodeChoices \cup {"", None} :
       \A mode \in EncounterModeChoices \cup {"", None} :
          /\ create_place_of_service_payload_phase3(pos, mode) = PlaceByPrecedence(pos, mode)
          /\ create_place_of_service_payload_phase3(pos, mode).PlaceOfServiceCode
                \in KnownPosCodes
    /\ \A i \in CallsOf("CreateEncounter") :
          /\ log[i].req.PlaceOfService = PlaceByPrecedence(PosCellOf(i), ModeCellOf(i))
          /\ log[i].req.PlaceOfService.PlaceOfServiceCode \in KnownPosCodes

\* C26 witness: an encounter was submitted for a row whose POS code, 99, is
\* not known and whose encounter mode names telehealth and the office: the
\* request carries code 10.
C26_Witness ==
    \E i \in CallsOf("CreateEncounter") :
        /\ PosCellOf(i) = "99"
        /\ NamesTelehealth(ModeCellOf(i)) /\ NamesOffice(ModeCellOf(i))
        /\ log[i].req.PlaceOfService.PlaceOfServiceCode = "10"

\* a known code beside a mode that names another place: the code as written
C26_WitnessVerbatim ==
    \E i \in CallsOf("CreateEncounter") :
        /\ PosCellOf(i) = "02" /\ ModeCellOf(i) = "In Office"
        /\ log[i].req.PlaceOfService =
              PosPayload("02", "Telehealth Provided Other than in Patient's Home")

\* neither a known code nor a mode that names a place: Office, code 11
C26_WitnessDefault ==
    \E i \in CallsOf("CreateEncounter") :
        /\ PosCellOf(i) = "2" /\ ModeCellOf(i) = "Home Visit"
        /\ log[i].req.PlaceOfService = PosPayload("11", "Office")

\* an unknown code beside an office mode: code 11 by inference
C26_WitnessOffice ==
    \E i \in CallsOf("CreateEncounter") :
        /\ IsNa(PosCellOf(i)) /\ ModeCellOf(i) = "InOffice"
        /\ ~NamesTelehealth(ModeCellOf(i)) /\ NamesOffice(ModeCellOf(i))
        /\ log[i].req.PlaceOfService = PosPayload("11", "Office")


-----------------------------------------------------------------------------
(* C27: hospitalization dates *)

\* a date cell is present and can be read as a date
DateGiven(cell) ==
    /\ ~BlankCell(cell)
    /\ Lower(Strip(PyStr(cell))) # "nan"
    /\ ParseDate(Strip(PyStr(cell))).k = "num"

\* the admit and discharge cells of the first row of group g
AdmitCellOf(g) == groups[g].rows[1].row.AdmitDate
DischargeCellOf(g) == groups[g].rows[1].row.DischargeDate

\* the request of a group carries a hospitalization block exactly when both
\* dates are given, and then with both dates
C27_BlockIffBothDates ==
    \A i \in CallsOf("CreateEncounter") :
        LET g == log[i].unit
        IN IF DateGiven(AdmitCellOf(g)) /\ DateGiven(DischargeCellOf(g))
           THEN /\ log[i].req.Hospitalization.StartDate =
                      Strip(PyStr(AdmitCellOf(g))) \o "T00:00:00"
                /\ log[i].req.Hospitalization.EndDate =
                      Strip(PyStr(DischargeCellOf(g))) \o "T00:00:00"
           ELSE log[i].req.Hospitalization = NoHospitalization

\* the step of a group with everything required submits it, whatever its
\* admit and discharge cells
C27_NotAborted ==
    (pc = "groups" /\ idx <= Len(groups) /\ idx' = idx + 1
     /\ RequiredComplete(outp, caches', idx))
    => \E i \in DOMAIN log' \ DOMAIN log :
          log'[i].op = "CreateEncounter" /\ log'[i].unit = idx

\* C27: hospitalization dates are sent both or neither: the submitted
\* encounter carries a hospitalization block only when both the admit date
\* and the discharge date are present and parseable; with exactly one of
\* them, or with one that cannot be parsed, no block is sent and the group
\* is not aborted for that reason.
C27_HospitalizationBothOrNeither == []C27_BlockIffBothDates /\ [][C27_NotAborted]_vars

\* C27 witness: a processed group whose first row has an admit date and an
\* empty discharge cell was submitted without a hospitalization block and
\* its rows have the encounter.
C27_Witness ==
    \E i \in CallsOf("CreateEncounter") :
        LET g == log[i].unit
        IN /\ g \in GroupsDone
           /\ DateGiven(AdmitCellOf(g)) /\ BlankCell(DischargeCellOf(g))
           /\ log[i].req.Hospitalization = NoHospitalization
           /\ EncounterResponseCreated(log[i].ans)
           /\ \A r \in Owners(g) : outp[r].EncounterID = ToString(log[i].ans.data)

\* both dates: the block is sent
C27_WitnessBoth ==
    \E i \in CallsOf("CreateEncounter") :
        log[i].req.Hospitalization =
            [StartDate |-> "2024-01-01T00:00:00", EndDate |-> "2024-01-05T00:00:00"]

\* a discharge date that cannot be parsed: no block, the group is submitted
C27_WitnessUnparseable ==
    \E i \in CallsOf("CreateEncounter") :
        /\ DateGiven(AdmitCellOf(log[i].unit))
        /\ DischargeCellOf(log[i].unit) = "bad date"
        /\ log[i].req.Hospitalization = NoHospitalization


-----------------------------------------------------------------------------
(* C28: rows without a payment *)

\* the batch number, the amount or the source of the row is blank
PaymentCellBlank(r) ==
    \E cell \in {batch[r].PPBatch, batch[r].PatientPayment, batch[r].PaymentSource} :
        BlankCell(cell)

\* the row counts as failed for a message that is not of Phase 2
FailedForOtherPhase(r) ==
    \E j \in 1..Len(outp[r].Error) :
        FailureWordIn(outp[r].Error[j]) /\ outp[r].Error[j].t \notin Phase2Clauses

\* C28: when the payment batch number, the amount or the source of a row is
\* blank, Phase 2 is skipped for the row without being an error: no practice
\* lookup and no CreatePayment call is issued for it, no payment ID is
\* recorded, its message has no Phase 2 clause, and it is counted in
\* failed_rows only for a message of another phase.
C28_BlankPaymentSkipped ==
    \A r \in RowsDone :
        PaymentCellBlank(r) =>
            /\ CallsIn(2, r) = {}
            /\ IsNa(outp[r].PaymentID)
            /\ ClausesOf(r, Phase2Clauses) = {}
            /\ FailedRow(outp[r]) => FailedForOtherPhase(r)
            /\ (pc = "done" /\ \A q \in DOMAIN batch : q # r => ~FailedRow(outp[q]))
                  => summary.failed_rows = IF FailedForOtherPhase(r) /\ FailedRow(outp[r])
                                           THEN 1 ELSE 0

\* C28 witness: the run is over for a batch with a row whose payment source
\* is blank beside a batch number and an amount: no call was issued for its
\* Phase 2, it has no Phase 2 message, its encounter was created and no row
\* is counted as failed, while the other row's payment was posted.
C28_Witness ==
    /\ pc = "done"
    /\ summary.failed_rows = 0
    /\ \E r \in DOMAIN batch :
          /\ batch[r].PPBatch = "B1" /\ batch[r].PatientPayment = "25"
          /\ BlankCell(batch[r].PaymentSource)
          /\ CallsIn(1, r) # {} /\ CallsIn(2, r) = {}
          /\ ClausesOf(r, Phase2Clauses) = {}
          /\ EncounterCreatedRow(outp[r])
    /\ \E q \in DOMAIN batch : PaymentPostedRow(outp[q])

\* a row with a blank amount before the summary: no payment ID is recorded
C28_WitnessNoPaymentId ==
    /\ pc = "groups"
    /\ \E r \in RowsDone :
          /\ BlankCell(batch[r].PatientPayment) /\ ~BlankCell(batch[r].PPBatch)
          /\ IsNa(outp[r].PaymentID)
    /\ \E q \in RowsDone : ~IsNa(outp[q].PaymentID)


-----------------------------------------------------------------------------
(* C29: the counts of the summary *)

\* the number of the rows 1..n of the finished batch that satisfy a test
RECURSIVE CountRows(_, _)
CountRows(Test(_), n) ==
    IF n = 0 THEN 0 ELSE CountRows(Test, n - 1) + (IF Test(n) THEN 1 ELSE 0)

AssignedEncounter(r) == ~IsNa(outp[r].EncounterID)
MessagePosted(r) == \E j \in 1..Len(outp[r].Error) : PaymentPostedIn(outp[r].Error[j])
MessageCreated(r) == \E j \in 1..Len(outp[r].Error) : EncounterCreatedIn(outp[r].Error[j])
MessageFailure(r) == \E j \in 1..Len(outp[r].Error) : FailureWordIn(outp[r].Error[j])
CountedFailed(r) == MessageFailure(r) /\ ~MessageCreated(r) /\ ~MessagePosted(r)

\* C29: in the summary of a finished run total_rows is the number of input
\* rows, encounters_created the number of rows with an assigned Encounter ID,
\* payments_posted the number of rows whose message matches the
\* payment-posted pattern, and failed_rows the number of rows whose message
\* has a failure keyword and matches neither the encounter-created nor the
\* payment-posted pattern.
C29_SummaryCounts ==
    pc = "done" =>
        /\ summary.total_rows = Len(batch)
        /\ summary.encounters_created = CountRows(AssignedEncounter, Len(batch))
        /\ summary.payments_posted = CountRows(MessagePosted, Len(batch))
        /\ summary.failed_rows = CountRows(CountedFailed, Len(batch))

\* C29 witness: a finished run of two rows: one row's message has a failure
\* keyword beside a created encounter and is not counted as failed, the other
\* row is counted as failed; a payment was posted
C29_Witness ==
    /\ pc = "done"
    /\ summary.total_rows = 2
    /\ summary.encounters_created = 1
    /\ summary.payments_posted >= 1
    /\ summary.failed_rows = 1
    /\ \E r \in DOMAIN batch : MessageFailure(r) /\ MessageCreated(r)


-----------------------------------------------------------------------------
(* C30: the results list of the summary *)

\* a row that neither phase worked on, or that is counted as failed
SkippedOrFailed(r) == ~RowTaken(r) \/ CountedFailed(r)

\* C30: the results list of the summary of a finished run has exactly one
\* entry per input row, in the order of the rows; the entry of a row carries
\* the row's number in the sheet, its practice, its patient id and its final
\* message, whether the row was skipped, failed or done.
C30_OneResultPerRow ==
    pc = "done" =>
        /\ Len(summary.results) = Len(batch)
        /\ \A r \in DOMAIN batch :
              /\ summary.results[r].row_number = ToString(r + 1)
              /\ summary.results[r].practice_name =
                    (IF IsNa(batch[r].Practice) THEN None ELSE batch[r].Practice)
              /\ summary.results[r].patient_id =
                    (IF IsNa(batch[r].PatientID) THEN None ELSE batch[r].PatientID)
              /\ summary.results[r].results = outp[r].Error

\* C30 witness: a finished run of two rows, the first skipped and the second
\* with a created encounter: the list has the two entries in that order
C30_Witness ==
    /\ pc = "done"
    /\ Len(batch) = 2
    /\ ~RowTaken(1) /\ MessageCreated(2)
    /\ Len(summary.results) = 2
    /\ summary.results[1].row_number = "2" /\ summary.results[2].row_number = "3"
    /\ summary.results[1].results = outp[1].Error
    /\ summary.results[2].results = outp[2].Error
    /\ summary.results[1].results # summary.results[2].results

\* a finished run with a row that has no message at all
C30_WitnessNoMessage ==
    /\ pc = "done"
    /\ \E r \in DOMAIN batch : outp[r].Error = <<>> /\ summary.results[r].results = <<>>


-----------------------------------------------------------------------------
(* C31, C32: the error-message simplifier *)

\* the CreateEncounter calls answered with an error flag
EncounterErrors ==
    {i \in CallsOf("CreateEncounter") : log[i].ans.isError /\ ~log[i].ans.fault}

\* the simplified message in the Error column of row r
SimplifiedOf(r) ==
    {outp[r].Error[j].a : j \in {k \in 1..Len(outp[r].Error) : outp[r].Error[k].t = "Enc API Err: %s"}}

\* C31: the error-message simplifier maps the message
\* <ServiceLine><ProcedureCode>99213</ProcedureCode><DiagnosisCode1>Z00<err id="5">Invalid code, see manual</err></DiagnosisCode1></ServiceLine>
\* to exactly "L1(Proc 99213): Diag1 ('Z00') - Invalid code.": one clause for
\* the offending field, tagged with the ordinal of the service line and its
\* procedure code, the message of the service cut at its first comma.
C31_SimplifierExample ==
    /\ SimplifiedMessage[DiagnosisErrorXml] = "L1(Proc 99213): Diag1 ('Z00') - Invalid code."
    /\ \A i \in EncounterErrors :
          (log[i].ans.ErrorMessage = DiagnosisErrorXml /\ pc = "done") =>
              \A r \in Owners(log[i].unit) :
                  SimplifiedOf(r) = {"L1(Proc 99213): Diag1 ('Z00') - Invalid code."}

\* C31 witness: a finished run in which CreateEncounter answered with that
\* message and the rows of the group carry the simplified message
C31_Witness ==
    /\ pc = "done"
    /\ \E i \in EncounterErrors :
          /\ log[i].ans.ErrorMessage = DiagnosisErrorXml
          /\ \E r \in Owners(log[i].unit) :
                "L1(Proc 99213): Diag1 ('Z00') - Invalid code." \in SimplifiedOf(r)


\* the messages of the service in which the simplifier recognizes no error:
\* a text without a tag of an error, or with one and no match of a pattern
UnstructuredMessages ==
    {m \in EncounterErrorMessages \ {""} :
        \/ ~(Has(m, "<Encounter") \/ Has(m, "<err ") \/ Has(m, "<Error>"))
        \/ /\ ElementError(m, "ReferringProvider") = <<>>
           /\ ElementError(m, "RenderingProvider") = <<>>
           /\ ElementError(m, "ServiceLocation") = <<>>
           /\ AllServiceLineErrors(ServiceLineItems(m, 1), 1) = <<>>
           /\ ServiceLinesOverallError(m) = <<>>
           /\ EncounterLevelError(m) = <<>>}

\* those of them with a tag of an error
MarkedMessages ==
    {m \in UnstructuredMessages : Has(m, "<Encounter") \/ Has(m, "<err ") \/ Has(m, "<Error>")}

\* the length of the cut text with its three dots
SimplifiedBound == MaxUnparsedLen + 3

\* C32: the error-message simplifier gives a result for every message, and
\* for a message without a recognizable error structure the result is the
\* message cut to a bounded length: its length never exceeds the bound,
\* however long the message is.
C32_UnrecognizedBounded ==
    \A i \in EncounterErrors :
        /\ pc = "done" => \A r \in Owners(log[i].unit) : Cardinality(SimplifiedOf(r)) = 1
        /\ log[i].ans.ErrorMessage \in UnstructuredMessages =>
              \A r \in Owners(log[i].unit) :
                  \A t \in SimplifiedOf(r) : Len(t) <= SimplifiedBound

\* C32 witness: a finished run in which CreateEncounter answered with a text
\* of 300 characters without a tag; the rows of the group carry the whole
\* text without the space at its end, 299 characters
C32_Witness ==
    /\ pc = "done"
    /\ \E i \in EncounterErrors :
          /\ log[i].ans.ErrorMessage = LongText
          /\ Len(LongText) = 300
          /\ \E r \in Owners(log[i].unit) :
                \E t \in SimplifiedOf(r) : Len(t) = 299 /\ t = PyStrip(LongText)

\* the part of C32 that holds: every message gets one simplified message,
\* and a message with a tag of an error and no match of a pattern is cut to
\* the bound
C32_TotalAndMarkedBounded ==
    \A i \in EncounterErrors :
        /\ pc = "done" => \A r \in Owners(log[i].unit) : Cardinality(SimplifiedOf(r)) = 1
        /\ log[i].ans.ErrorMessage \in MarkedMessages =>
              \A r \in Owners(log[i].unit) :
                  \A t \in SimplifiedOf(r) : Len(t) <= SimplifiedBound

\* a finished run with a long text with a tag, cut to 250 characters and
\* three dots
C32_WitnessCut ==
    /\ pc = "done"
    /\ \E i \in EncounterErrors :
          /\ log[i].ans.ErrorMessage \in MarkedMessages
          /\ Len(log[i].ans.ErrorMessage) > SimplifiedBound
          /\ \E r \in Owners(log[i].unit) :
                \E t \in SimplifiedOf(r) : Len(t) = SimplifiedBound


-----------------------------------------------------------------------------
(* C33: the Encounter ID of the rows of a group *)

\* the CreateEncounter calls of group g whose response carries a positive
\* encounter ID and neither an error flag nor a refused authorization
CreatedFor(g) ==
    {i \in CallsOf("CreateEncounter") :
        /\ log[i].unit = g
        /\ ~log[i].ans.fault /\ ~log[i].ans.isError /\ ~log[i].ans.unauthorized
        /\ log[i].ans.data > 0}

\* the groups row r belongs to
GroupsOfRow(r) == {g \in DOMAIN groups : r \in Owners(g)}

\* C33: at the end of a run a row has an Encounter ID exactly when it belongs
\* to a group whose CreateEncounter response carried a positive encounter ID
\* without an error or authorization flag, and the ID is that one; the rows
\* of one group carry the same Encounter ID, Charge Amount and Charge Status;
\* the rows of a group whose submission failed or was aborted have none.
C33_EncounterIdOfGroup ==
    pc = "done" =>
        /\ \A r \in DOMAIN batch :
              ~IsNa(outp[r].EncounterID) <=> \E g \in GroupsOfRow(r) : CreatedFor(g) # {}
        /\ \A g \in DOMAIN groups :
              /\ \A r, q \in Owners(g) :
                    /\ outp[r].EncounterID = outp[q].EncounterID
                    /\ outp[r].ChargeAmount = outp[q].ChargeAmount
                    /\ outp[r].ChargeStatus = outp[q].ChargeStatus
              /\ \A i \in CreatedFor(g) :
                    \A r \in Owners(g) : outp[r].EncounterID = ToString(log[i].ans.data)
              /\ CreatedFor(g) = {} => \A r \in Owners(g) : IsNa(outp[r].EncounterID)

\* C33 witness: a finished run with a group of two rows that carry the ID of
\* the group's created encounter, and a group whose CreateEncounter response
\* carried an ID and an error flag, whose row has none
C33_Witness ==
    /\ pc = "done"
    /\ \E g \in DOMAIN groups :
          /\ Cardinality(Owners(g)) = 2
          /\ CreatedFor(g) # {}
          /\ \A r \in Owners(g) : outp[r].EncounterID = ToString(1000 + g)
    /\ \E g \in DOMAIN groups :
          /\ \E i \in CallsOf("CreateEncounter") :
                log[i].unit = g /\ log[i].ans.isError /\ log[i].ans.data > 0
          /\ \A r \in Owners(g) : IsNa(outp[r].EncounterID)

\* a finished run with a group that was aborted before its submission
C33_WitnessAborted ==
    /\ pc = "done"
    /\ \E g \in DOMAIN groups :
          /\ CallsOf("CreateEncounter") \cap CallsIn(3, g) = {}
          /\ Owners(g) # {}
          /\ \A r \in Owners(g) : IsNa(outp[r].EncounterID)


-----------------------------------------------------------------------------
(* C34: the resolver caches *)

CacheNames == {"practice", "service_location", "provider", "referring", "case"}

\* every entry of a cache before the step is in it after the step, with the
\* same value
CacheEntriesKept ==
    \A c \in CacheNames :
        \A k \in DOMAIN caches[c] :
            k \in DOMAIN caches'[c] /\ caches'[c][k] = caches[c][k]

\* a resolve of a key that is in its cache returns the cached value and
\* changes nothing: no remote call, no write
CachedValueReturned ==
    LET w == World(caches, log, faults)
        ctx == Ctx(3, 1)
    IN /\ \A k \in DOMAIN caches.practice :
             get_practice_id_by_name(k, w, ctx) = {Ret(caches.practice[k], w)}
       /\ \A k \in DOMAIN caches.service_location :
             get_service_location_id_by_name(k[2], k[1], w, ctx)
                = {Ret(caches.service_location[k], w)}
       /\ \A k \in DOMAIN caches.provider :
             get_provider_id_by_name_phase3(k[2], k[1], w, ctx)
                = {Ret(caches.provider[k], w)}
       /\ \A k \in DOMAIN caches.referring :
             get_referring_provider_details_for_encounter(k[2], k[1], w, ctx)
                = {Ret(caches.referring[k], w)}
       /\ \A k \in DOMAIN caches.case :
             \A n \in 0..999 :
                <<ToString(n)>> = k =>
                    get_case_id_for_patient_phase3(n, w, ctx) = {Ret(caches.case[k], w)}

\* the remote lookups of a resolver for a key come before the key is in the
\* cache: a step issues none for a key its cache holds
NoLookupOfCachedKey ==
    \A i \in (Len(log) + 1)..Len(log') :
        /\ log'[i].fn = "get_practice_id_by_name" => log'[i].key[1] \notin DOMAIN caches.practice
        /\ log'[i].fn = "get_service_location_id_by_name"
              => log'[i].key \notin DOMAIN caches.service_location
        /\ log'[i].fn = "get_provider_id_by_name_phase3"
              => log'[i].key \notin DOMAIN caches.provider
        /\ log'[i].fn = "get_referring_provider_details_for_encounter"
              => log'[i].key \notin DOMAIN caches.referring
        /\ log'[i].fn = "get_case_id_for_patient_phase3"
              => log'[i].key \notin DOMAIN caches.case

\* C34: the entries of the resolver caches are written once in a run: a key
\* that is in a cache, with an ID or with the mark of not found, keeps its
\* value through every later operation of the run and is never removed, and
\* every later resolve of the key returns that value without a lookup.
C34_CacheWriteOnce ==
    /\ []CachedValueReturned
    /\ [][CacheEntriesKept /\ NoLookupOfCachedKey]_vars

\* C34 witness: two rows of one practice had their payments posted; the
\* practice was looked up once, for the first row, and its ID is in the cache
C34_Witness ==
    /\ pc = "groups"
    /\ \E k \in DOMAIN caches.practice :
          /\ caches.practice[k] # None
          /\ Cardinality({i \in CallsOf("GetPractices") : log[i].key = <<k>>}) = 1
          /\ \A i \in CallsOf("GetPractices") : log[i].key = <<k>> => log[i].unit = 1 /\ log[i].ph = 2
          /\ Cardinality({i \in CallsOf("CreatePayment") : TRUE}) = 2
          /\ \A r \in DOMAIN batch : Lower(Strip(PyStr(batch[r].Practice))) = k

\* a cache with the mark of not found, and the second row of the same
\* practice without a lookup
C34_WitnessNotFound ==
    /\ pc = "groups"
    /\ Len(batch) = 2
    /\ \E k \in DOMAIN caches.practice :
          /\ caches.practice[k] = None
          /\ \A r \in DOMAIN batch : Lower(Strip(PyStr(batch[r].Practice))) = k
          /\ \A r \in DOMAIN batch : PaymentCellsGiven(r)
          /\ \A i \in CallsOf("GetPractices") : log[i].unit = 1 /\ log[i].ph = 2
          /\ CallsOf("GetPractices") # {}


-----------------------------------------------------------------------------
(* C35: CreatePayment *)

PaymentCalls == CallsOf("CreatePayment")

\* the practice ID the cache holds for the practice of row r, None without
PracticeIdOfRow(r) ==
    LET k == Lower(Strip(PyStr(batch[r].Practice)))
    IN IF k \in DOMAIN caches.practice THEN caches.practice[k] ELSE None

\* at most one CreatePayment call for a row, issued in Phase 2 of a row that
\* was processed, with the practice ID resolved for the row
PaymentCallsInPhase2 ==
    /\ \A i, j \in PaymentCalls : log[i].unit = log[j].unit => i = j
    /\ \A i \in PaymentCalls :
          /\ log[i].ph = 2
          /\ log[i].unit \in RowsDone
          /\ PracticeIdOfRow(log[i].unit) \notin {None, ""}
          /\ log[i].req[1] = PracticeIdOfRow(log[i].unit)

\* a step issues a CreatePayment call only for the row the row loop is at,
\* and one at most; the steps of Phase 3 and the summary issue none
PaymentOnlyInRowStep ==
    LET new == {i \in (Len(log) + 1)..Len(log') : log'[i].op = "CreatePayment"}
    IN /\ Cardinality(new) <= 1
       /\ new # {} => pc = "rows" /\ \A i \in new : log'[i].unit = idx
       /\ \A i \in PaymentCalls : log'[i] = log[i]

\* C35: CreatePayment is invoked at most once for a row in a run, only in the
\* row's Phase 2 and only with the practice ID resolved for the row; a
\* payment that failed is not posted again, and Phase 3, failed or not,
\* issues no payment call.
C35_PaymentAtMostOnce ==
    /\ []PaymentCallsInPhase2
    /\ [][PaymentOnlyInRowStep]_vars

\* C35 witness: a finished run with a row whose one CreatePayment call
\* failed and whose group got no encounter
C35_Witness ==
    /\ pc = "done"
    /\ \E i \in PaymentCalls :
          /\ Failed(log[i].ans)
          /\ Cardinality({j \in PaymentCalls : log[j].unit = log[i].unit}) = 1
          /\ \E g \in DOMAIN groups :
                /\ log[i].unit \in Owners(g)
                /\ CallsIn(3, g) # {}
                /\ IsNa(outp[log[i].unit].EncounterID)


-----------------------------------------------------------------------------
(* C36: the service lines of a submitted encounter *)

\* the rows of group g in the order of the sheet
RECURSIVE InOrder(_)
InOrder(S) ==
    IF S = {} THEN <<>>
    ELSE LET first == CHOOSE i \in S : \A j \in S : i <= j
         IN <<first>> \o InOrder(S \ {first})
MemberRowsOf(g) == InOrder(Owners(g))

\* the service line of the request is the one of row r: it carries the text
\* of the row's procedure, units and first diagnosis cells
LineOfRow(line, r) ==
    /\ line.ProcedureCode = Strip(PyStr(batch[r].Procedures))
    /\ line.Units = Strip(PyStr(batch[r].Units))
    /\ line.DiagnosisCode1 = Strip(PyStr(batch[r].Diag1))

\* C36: when CreateEncounter is invoked for a group the submitted encounter
\* has exactly one service line for each member row of the group, in the
\* order of the rows: no member row is left out of a submitted encounter.
C36_OneLinePerMemberRow ==
    \A i \in CallsOf("CreateEncounter") :
        LET members == MemberRowsOf(log[i].unit)
            lines == log[i].req.ServiceLines
        IN /\ Len(lines) = Len(members)
           /\ \A j \in 1..Len(members) : LineOfRow(lines[j], members[j])

\* C36 witness: an encounter was submitted for a group of three rows with
\* three different lines, which the request holds in the order of the rows
C36_Witness ==
    \E i \in CallsOf("CreateEncounter") :
        /\ MemberRowsOf(log[i].unit) = <<1, 2, 3>>
        /\ Len(log[i].req.ServiceLines) = 3
        /\ log[i].req.ServiceLines[1].ProcedureCode = "99213"
        /\ log[i].req.ServiceLines[2].ProcedureCode = "99215"
        /\ log[i].req.ServiceLines[3].ProcedureCode = "99214"
        /\ batch[2].Procedures = "99215"

\* a group with a member row without a usable line: nothing is submitted
C36_WitnessAborted ==
    /\ pc = "done"
    /\ \E g \in DOMAIN groups :
          /\ Cardinality(Owners(g)) = 3
          /\ \E r \in Owners(g) : batch[r].Units = "0"
          /\ \A i \in CallsOf("CreateEncounter") : log[i].unit # g
          /\ \A r \in Owners(g) : HasClause(outp[r], "Enc Error: Failed service line from Excel row %s.")


-----------------------------------------------------------------------------
(* C37: the counts of the summary together *)

\* the rows the summary counts as failed, with an encounter and with a
\* posted payment
SummaryFailedRows == {r \in DOMAIN batch : CountedFailed(r)}
SummaryCreatedRows == {r \in DOMAIN batch : AssignedEncounter(r)}
SummaryPostedRows == {r \in DOMAIN batch : MessagePosted(r)}

\* C37: the counts of the summary are consistent: no row is counted in
\* failed_rows and also as encounter-created or as payment-posted, so
\* failed_rows + encounters_created <= total_rows and
\* failed_rows + payments_posted <= total_rows in every run.
C37_CountsConsistent ==
    pc = "done" =>
        /\ summary.failed_rows = Cardinality(SummaryFailedRows)
        /\ summary.encounters_created = Cardinality(SummaryCreatedRows)
        /\ summary.payments_posted = Cardinality(SummaryPostedRows)
        /\ SummaryFailedRows \cap SummaryCreatedRows = {}
        /\ SummaryFailedRows \cap SummaryPostedRows = {}
        /\ summary.failed_rows + summary.encounters_created <= summary.total_rows
        /\ summary.failed_rows + summary.payments_posted <= summary.total_rows

\* C37 witness: a finished run of two rows, one counted as failed and one
\* with an encounter and a posted payment whose message has a failure word
C37_Witness ==
    /\ pc = "done"
    /\ summary.total_rows = 2
    /\ summary.failed_rows = 1
    /\ summary.encounters_created = 1
    /\ summary.payments_posted = 1
    /\ \E r \in SummaryCreatedRows \cap SummaryPostedRows : MessageFailure(r)


-----------------------------------------------------------------------------
(* C38: the run ends *)

\* the remote calls a step issues, as positions of the log after the step
NewCalls == (Len(log) + 1)..Len(log')

\* a step of the row loop works on the row the loop is at, issues calls of
\* Phase 1 and 2 for that row only, changes the output of that row only and
\* moves to the next row
RowStepOnce ==
    (pc = "rows" /\ pc' = "rows") =>
        /\ idx <= Len(batch)
        /\ idx' = idx + 1
        /\ \A i \in NewCalls : log'[i].unit = idx /\ log'[i].ph \in {1, 2}
        /\ \A r \in DOMAIN outp : r # idx => outp'[r] = outp[r]

\* the groups are formed when the last row is done, and no call is issued
GroupingAfterRows ==
    (pc = "rows" /\ pc' # "rows") =>
        /\ idx = Len(batch) + 1
        /\ pc' = "groups"
        /\ idx' = 1
        /\ NewCalls = {}

\* a step of the group loop works on the group the loop is at, issues calls
\* of Phase 3 for that group only, changes the output of the rows of that
\* group only and moves to the next group
GroupStepOnce ==
    (pc = "groups" /\ pc' = "groups") =>
        /\ idx <= Len(groups)
        /\ idx' = idx + 1
        /\ groups' = groups
        /\ \A i \in NewCalls : log'[i].unit = idx /\ log'[i].ph = 3
        /\ \A r \in DOMAIN outp : r \notin Members(groups[idx]) => outp'[r] = outp[r]

\* the summary is produced when the last group is done, and no call is
\* issued
SummaryAfterGroups ==
    (pc = "groups" /\ pc' # "groups") =>
        /\ idx = Len(groups) + 1
        /\ pc' = "done"
        /\ summary'.total_rows = Len(batch)
        /\ NewCalls = {}

\* no step issues the same request of a function twice in a phase: no call
\* is repeated after its answer, whatever the answer
NoRetry ==
    \A i, j \in NewCalls :
        (/\ log'[i].ph = log'[j].ph /\ log'[i].fn = log'[j].fn /\ log'[i].op = log'[j].op
         /\ log'[i].key = log'[j].key /\ log'[i].req = log'[j].req) => i = j

\* a step adds calls to the log and leaves the calls of the log as they are;
\* nothing follows the summary
LogGrows ==
    /\ pc # "done"
    /\ Len(log') >= Len(log)
    /\ \A i \in DOMAIN log : log'[i] = log[i]

\* the calls of the phases so far belong to rows and groups of the batch
CallsOfTheBatch ==
    \A i \in DOMAIN log :
        /\ log[i].ph \in {1, 2} => log[i].unit \in DOMAIN batch
        /\ log[i].ph = 3 => pc # "rows" /\ log[i].unit \in DOMAIN groups

\* a step can be taken in every state short of the completed one: the row
\* and the group the loops are at have an outcome whatever the remote
\* answers were so far (the guards of GroupRows and Summarize are the
\* remaining cases of pc and idx)
StepPossible ==
    /\ pc \in {"rows", "groups", "done"}
    /\ pc = "rows" => idx \in 1..(Len(batch) + 1)
    /\ pc = "groups" => idx \in 1..(Len(groups) + 1)
    /\ (pc = "rows" /\ idx <= Len(batch))
          => RowOutcomes(batch[idx], outp[idx], World(caches, log, faults), idx) # {}
    /\ (pc = "groups" /\ idx <= Len(groups))
          => GroupOutcomes(groups[idx], outp, World(caches, log, faults), idx) # {}

\* the steps a run has left at most: the rows to go, the grouping, a group
\* for each row at most, the summary
StepsLeft ==
    IF pc = "rows" THEN (Len(batch) + 1 - idx) + 1 + Len(batch) + 1
    ELSE IF pc = "groups" THEN (Len(groups) + 1 - idx) + 1
    ELSE 0

\* C38: every run over a finite batch ends in the completed state, whatever
\* the remote answers and the faults the code handles: in every state short
\* of the completed one a step can be taken, and every step leaves fewer
\* steps to take; each row is gone through by Phase 1/2 once, in one step of
\* the row loop, each group by Phase 3 once, in one step of the group loop,
\* then the summary is produced; no step repeats a remote call.
C38_RunCompletes ==
    /\ [](StepPossible /\ CallsOfTheBatch /\ StepsLeft >= 0)
    /\ [][/\ StepsLeft' < StepsLeft
          /\ RowStepOnce /\ GroupingAfterRows /\ GroupStepOnce /\ SummaryAfterGroups
          /\ NoRetry /\ LogGrows]_vars

\* C38 witness: a finished run of two rows and a group where each row had
\* its Phase 1 call and a call of a row step got a remote answer that was
\* not the nominal one
C38_Witness ==
    /\ pc = "done"
    /\ Len(batch) = 2
    /\ \E i \in DOMAIN log : log[i].ph \in {1, 2} /\ Failed(log[i].ans)
    /\ groups # <<>>
    /\ summary.total_rows = 2
    /\ \A r \in DOMAIN batch : \E i \in DOMAIN log : log[i].ph = 1 /\ log[i].unit = r


-----------------------------------------------------------------------------
(* C39: the fields of the encounter come from the first row of the group *)

\* the first row of group g: the member row that comes first in the batch
FirstMemberRow(g) == batch[MemberRowsOf(g)[1]]

\* the ID the provider cache c holds for a name in the practice of group g,
\* None for no name and for a name the cache does not hold
ProviderIdIn(c, g, name) ==
    LET k == <<PracticeOf(c, g), Lower(name)>>
    IN IF name # "" /\ k \in DOMAIN c.provider THEN c.provider[k] ELSE None

\* the referring provider block for the name of a cell, as the referring
\* cache c holds it
ReferringBlockIn(c, g, cell) ==
    LET written == Strip(PyStr(cell))
        name == IF Lower(written) = "nan" THEN "" ELSE written
        k == <<PracticeOf(c, g), Lower(name)>>
    IN IF name # "" /\ k \in DOMAIN c.referring THEN ReferringPayload(c.referring[k])
       ELSE NoDetails

\* the hospitalization block of a row: both dates when both cells hold a
\* date, none otherwise
StayBlockOf(row) ==
    IF DateGiven(row.AdmitDate) /\ DateGiven(row.DischargeDate)
    THEN [StartDate |-> Strip(PyStr(row.AdmitDate)) \o "T00:00:00",
          EndDate |-> Strip(PyStr(row.DischargeDate)) \o "T00:00:00"]
    ELSE NoHospitalization

\* the encounter-level fields that row f gives to an encounter of group g,
\* with the caches c
EncounterFieldsFrom(c, g, f) ==
    [RenderingProvider |-> ProviderIdIn(c, g, Strip(PyStr(f.RenderingProvider))),
     SchedulingProvider |-> ProviderIdIn(c, g, Strip(PyStr(f.SchedulingProvider))),
     ReferringProvider |-> ReferringBlockIn(c, g, f.ReferringProvider),
     PlaceOfService |-> PlaceByPrecedence(f.POS, f.EncounterMode),
     Hospitalization |-> StayBlockOf(f),
     BatchNumber |-> IF Strip(PyStr(f.CEBatch)) # "" THEN Strip(PyStr(f.CEBatch)) ELSE None]

\* the encounter-level fields of a request
EncounterFieldsOf(req) ==
    [RenderingProvider |-> req.RenderingProvider,
     SchedulingProvider |-> req.SchedulingProvider,
     ReferringProvider |-> req.ReferringProvider,
     PlaceOfService |-> req.PlaceOfService,
     Hospitalization |-> req.Hospitalization,
     BatchNumber |-> req.BatchNumber]

\* the encounter-level cells of a row
EncounterCells(row) ==
    <<row.RenderingProvider, row.SchedulingProvider, row.ReferringProvider, row.POS,
      row.EncounterMode, row.AdmitDate, row.DischargeDate, row.CEBatch>>

\* a step of the group loop: the request it submits has the fields the first
\* row of the group gives, and it submits one when the patient's name, the
\* IDs of the first row's entities, the day of service and the lines of all
\* rows are there, whatever the cells of the later rows hold
FirstRowDecides ==
    (pc = "groups" /\ idx <= Len(groups) /\ idx' = idx + 1) =>
        /\ groups[idx].rows[1].n = MemberRowsOf(idx)[1]
        /\ groups[idx].rows[1].row = FirstMemberRow(idx)
        /\ \A i \in DOMAIN log' \ DOMAIN log :
              log'[i].op = "CreateEncounter"
              => EncounterFieldsOf(log'[i].req)
                    = EncounterFieldsFrom(caches', idx, FirstMemberRow(idx))
        /\ RequiredComplete(outp, caches', idx)
              => \E i \in DOMAIN log' \ DOMAIN log :
                    log'[i].op = "CreateEncounter" /\ log'[i].unit = idx

\* C39: the encounter-level fields of a group (rendering, scheduling and
\* referring provider, POS / encounter mode, admit and discharge dates,
\* encounter batch number) are taken from the first row of the group only:
\* values of later rows that differ from the first row's do not change the
\* submitted encounter and do not abort the group.
C39_FirstRowOnly == [][FirstRowDecides]_vars

\* C39 witness: an encounter was submitted for a group of three rows; the
\* later rows name no rendering provider, a scheduling provider that is not
\* found, another place, a stay and another batch number, and the request
\* has the fields of the first row: no scheduling provider, the office, no
\* stay and no batch number
C39_Witness ==
    \E i \in CallsOf("CreateEncounter") :
        /\ MemberRowsOf(log[i].unit) = <<1, 2, 3>>
        /\ EncounterCells(batch[1]) = <<BaseProv[1], BaseProv[2], BaseProv[3], BasePlace[1],
                                        BasePlace[2], BaseStay[1], BaseStay[2], BaseBatch>>
        /\ IsNa(batch[2].RenderingProvider) /\ IsNa(batch[2].CEBatch)
        /\ batch[2].AdmitDate = "bad date" /\ batch[2].POS = "99"
        /\ batch[3].CEBatch = "E2" /\ batch[3].AdmitDate = "2024-01-01"
        /\ EncounterFieldsOf(log[i].req) = EncounterFieldsFrom(caches, log[i].unit, batch[1])
        /\ log[i].req.BatchNumber = None
        /\ log[i].req.Hospitalization = NoHospitalization
        /\ log[i].req.PlaceOfService = PosPayload("11", "Office")

\* an encounter was submitted with the batch number, the stay and the place
\* of the first row, which the later rows do not have
C39_WitnessFirstRowValues ==
    \E i \in CallsOf("CreateEncounter") :
        /\ Len(MemberRowsOf(log[i].unit)) >= 2
        /\ batch[MemberRowsOf(log[i].unit)[2]].CEBatch = BaseBatch
        /\ log[i].req.BatchNumber = "E2"
        /\ log[i].req.Hospitalization # NoHospitalization
        /\ log[i].req.PlaceOfService.PlaceOfServiceCode = "22"

=============================================================================
